---- MODULE Spec2Model ----
(***************************************************************************)
(* Wallet orchestration layer of the Cashu wallet MCP server.              *)
(*                                                                         *)
(* WalletService owns a storage handle (database / repositories) and an    *)
(* engine handle (manager), and composes a QuoteService and an             *)
(* EventService.  The wallet engine and the storage engine are external    *)
(* collaborators: they appear here as the persistent store they keep       *)
(* (mints, quotes, proofs) and as calls that either complete or throw.     *)
(*                                                                         *)
(* initialize is modelled step by step, one action per await point; the    *)
(* other operations are modelled as called by a sequential caller, one     *)
(* action per call, while no initialize is in flight.                      *)
(***************************************************************************)
EXTENDS Integers, Sequences, FiniteSets, TLC

VARIABLES
    database,       \* WalletService.database: open handle id, or NoHandle
    repositories,   \* WalletService.repositories: handle id, or NoHandle
    manager,        \* WalletService.manager: engine id, or NoHandle
    quoteService,   \* QuoteService fields
    eventService,   \* EventService fields
    initPc,         \* position of the initialize call in flight
    dbCount,        \* number of Database objects constructed so far
    openDbs,        \* Database objects constructed and not closed
    engines,        \* engines constructed by initializeCoco (by repo id)
    watchers,       \* watchers[e]: watchers/processors enabled on engine e
    listening,      \* engines carrying the EventService listeners
    mints,          \* mint table of the store, in enumeration order
    proofs,         \* per-mint balance held by the store
    mintQuotes,     \* mint-quote table: <<mintUrl, quoteId>> -> record
    meltQuotes,     \* melt-quote table: <<mintUrl, quoteId>> -> record
    initOk,         \* the last initialize returned normally, no cleanup since
    lastOp,         \* the call (or step) that produced the current state
    prevOp,         \* summary of the call before it, when it was a
                    \* successful call of one of the RememberedOps
    toolCall,       \* the last tool invocation through the MCP adapter
    envFile,        \* the .env key-file in the working directory
    processEnv,     \* process.env.COCO_SEED
    configService,  \* ConfigService.config and the loadConfig call in flight
    seedWrites,     \* number of writeFile calls that stored a seed line
    resolvedSeeds,  \* the seeds the loadConfig calls have returned, in order
    emitter,        \* EventService.eventEmitter: the registered listeners
    subscriptions,  \* the subscribe and waitForEvent calls made so far
    eventLog,       \* the engine events EventService.logEvent has printed
    transactionService, \* TransactionService.manager
    history,        \* the engine's history entries, oldest first
    derivations,    \* the seed derivations the seedGetter has performed
    inflight,       \* the calls that are suspended at one of their awaits
    registry        \* the ServiceRegistry: its services, flag and running call

vars == <<database, repositories, manager, quoteService, eventService,
          initPc, dbCount, openDbs, engines, watchers, listening,
          mints, proofs, mintQuotes, meltQuotes, initOk, lastOp, prevOp,
          toolCall, envFile, processEnv, configService, seedWrites,
          resolvedSeeds, emitter, subscriptions, eventLog,
          transactionService, history, derivations, inflight, registry>>

lifecycleVars == <<database, repositories, manager, quoteService,
                   eventService, initPc, dbCount, openDbs, engines,
                   watchers, listening, initOk>>

storeVars == <<mints, proofs, mintQuotes, meltQuotes>>

\* the state outside WalletService: the tool adapter and the configuration
hostVars == <<toolCall, envFile, processEnv, configService, seedWrites,
              resolvedSeeds>>

\* the state of the EventService emitter and of what it has observed
eventVars == <<emitter, subscriptions, eventLog>>

\* the TransactionService handle, the engine's history, the seed requests,
\* the calls in flight and the ServiceRegistry
engineVars == <<transactionService, history, derivations, inflight, registry>>

-----------------------------------------------------------------------------
(* Bounds *)

\* number of mint URLs a caller may name
NumUrls == 2

\* number of quote ids a mint may issue
NumQuoteIds == 1

\* number of initialize calls in one run
MaxInits == 2

\* number of distinct non-zero amounts
NumAmounts == 2

\* number of quote records the mints issue in one run
MaxQuotes == 2

\* number of loadConfig calls in one run
MaxLoads == 2

\* number of distinct mnemonics the generator can produce
NumMnemonics == 2

\* number of subscribe and waitForEvent calls in one run
MaxListeners == 2

\* number of events the engine emits in one run
MaxEvents == 2

\* number of history entries the engine writes in one run
MaxHistory == 2

\* number of seed requests the engine makes in one run
MaxDerivations == 2

\* number of calls followed through their await points in one run
MaxCalls == 2

\* number of services registered with the ServiceRegistry
NumServices == 2

\* number of initializeAll and cleanupAll calls in one run
MaxRegistryCalls == 3

-----------------------------------------------------------------------------
(* Values *)

NoHandle == 0

UrlNames == <<"https://a", "https://b", "https://mint.example", "https://c">>

MintUrls == {UrlNames[i] : i \in 1..NumUrls}

QuoteIdNames == <<"abc", "q2", "q3">>

QuoteIds == {QuoteIdNames[i] : i \in 1..NumQuoteIds}

AmountValues == <<100, 250, 1000, 21>>

Amounts == {AmountValues[i] : i \in 1..NumAmounts}

\* the three background watchers/processors QuoteService enables, in order
WatcherNames == <<"mintQuoteWatcher", "mintQuoteProcessor", "proofStateWatcher">>

AllWatchers == {WatcherNames[i] : i \in 1..Len(WatcherNames)}

\* JavaScript undefined, for an argument that is omitted or a map entry
\* that is present without a value
Undefined == "undefined"

\* the empty string, the one string JavaScript treats as false
EmptyUrl == ""

NullValue == [kind |-> "null"]

VoidValue == [kind |-> "void"]

NoOp == [op |-> "none", url |-> Undefined, arg |-> VoidValue,
         status |-> "ok", calls |-> <<>>, value |-> VoidValue]

Summary(o) == [op |-> o.op, url |-> o.url, status |-> o.status]

\* the calls whose success the next call is related to
RememberedOps == {"trustMint"}

Remember(o) ==
    IF o.op \in RememberedOps /\ o.status = "ok" THEN Summary(o) ELSE Summary(NoOp)

-----------------------------------------------------------------------------
(* Errors *)

\* createWalletApiError: an Error carrying a machine-readable code
createWalletApiError(code) == code

\* the operation names handed to withServiceError, and their toUpperCase()
UpperCase ==
    [n \in {"get balance", "add mint", "list mints", "trust mint",
            "untrust mint", "remove mint", "receive tokens", "send tokens",
            "enable quote watchers", "check quote status",
            "list transactions"} |->
        CASE n = "get balance" -> "GET BALANCE"
          [] n = "add mint" -> "ADD MINT"
          [] n = "list mints" -> "LIST MINTS"
          [] n = "trust mint" -> "TRUST MINT"
          [] n = "untrust mint" -> "UNTRUST MINT"
          [] n = "remove mint" -> "REMOVE MINT"
          [] n = "receive tokens" -> "RECEIVE TOKENS"
          [] n = "send tokens" -> "SEND TOKENS"
          [] n = "enable quote watchers" -> "ENABLE QUOTE WATCHERS"
          [] n = "check quote status" -> "CHECK QUOTE STATUS"
          [] n = "list transactions" -> "LIST TRANSACTIONS"]

\* ServiceUtils.withServiceError: the code of the error it re-throws
withServiceError(operationName) ==
    createWalletApiError(UpperCase[operationName] \o "_FAILED")

\* an error thrown by the engine or the storage layer itself (no code)
EngineError == "engine error"

-----------------------------------------------------------------------------
(* Steps shared by all actions *)

\* a call of the wallet layer: it touches neither the host state nor the
\* engine's own records nor what the EventService has observed
Record(o) ==
    /\ lastOp' = o
    /\ prevOp' = Remember(lastOp)
    /\ UNCHANGED hostVars
    /\ UNCHANGED engineVars
    /\ UNCHANGED <<subscriptions, eventLog>>

SetOp(o) ==
    /\ Record(o)
    /\ UNCHANGED emitter

Op(name, url, arg, status, calls, value) ==
    [op |-> name, url |-> url, arg |-> arg, status |-> status,
     calls |-> calls, value |-> value]

\* BaseService.isInitialized / isReady
BaseIsInitialized(svc) == svc.initialized

BaseIsReady(svc) == svc.initialized /\ svc.readyState

\* BaseService.resetState, with the handles the subclass cleanup releases
QuoteServiceReset ==
    [manager |-> NoHandle, repositories |-> NoHandle,
     initialized |-> FALSE, readyState |-> FALSE]

EventServiceReset ==
    [manager |-> NoHandle, initialized |-> FALSE, readyState |-> FALSE]

\* WalletService.isInitialized / isReady
isInitialized == manager # NoHandle

isReady == isInitialized

\* every watcher/processor QuoteService.enableQuoteWatchers turns on is
\* running on engine e
WatchersEnabled(e) == \A w \in AllWatchers : <<e, w>> \in watchers

-----------------------------------------------------------------------------
(* Initial state: a constructed WalletService over an empty database file *)

WalletInit ==
    /\ database = NoHandle
    /\ repositories = NoHandle
    /\ manager = NoHandle
    /\ quoteService = QuoteServiceReset
    /\ eventService = EventServiceReset
    /\ initPc = "idle"
    /\ dbCount = 0
    /\ openDbs = {}
    /\ engines = {}
    /\ watchers = {}
    /\ listening = {}
    /\ mints = <<>>
    /\ proofs = [u \in {} |-> 0]
    /\ mintQuotes = [k \in {} |-> NullValue]
    /\ meltQuotes = [k \in {} |-> NullValue]
    /\ initOk = FALSE
    /\ lastOp = NoOp
    /\ prevOp = Summary(NoOp)

\* no tool called yet; no .env file, no COCO_SEED variable, no config loaded
NoToolCall ==
    [registration |-> "none", tool |-> "none", outcome |-> [kind |-> "none"],
     response |-> [kind |-> "none"]]

NoFile == [exists |-> FALSE, content |-> <<>>]

ConfigIdle(config) ==
    [config |-> config, pc |-> "idle", mnemonic |-> Undefined,
     envContent |-> <<>>]

\* the number of lines logEvent has printed, and the last of them
NothingLogged == [count |-> 0, last |-> [kind |-> "none"]]

\* a call slot: what an async call holds while it is suspended, and how it
\* settled
CallSlot(op, pc, url, arg, handle, expected, status, value, threw) ==
    [op |-> op, pc |-> pc, url |-> url, arg |-> arg, handle |-> handle,
     expected |-> expected, status |-> status, value |-> value,
     threw |-> threw]

NoCall ==
    CallSlot("none", "idle", "undefined", [kind |-> "void"], 0,
             [kind |-> "void"], "pending", [kind |-> "void"], "none")

\* ServiceRegistry as constructed (lines 400-402): no service, not
\* initialized; no initializeAll or cleanupAll called yet
NewRegistry ==
    [services |-> <<>>, initialized |-> FALSE, op |-> "none", pc |-> "idle",
     next |-> 0, log |-> <<>>, status |-> "none", calls |-> 0,
     wasInitialized |-> FALSE]

\* no listener registered, no event seen, no history, no seed requested, no
\* call in flight
ServicesInit ==
    /\ emitter = {}
    /\ subscriptions = <<>>
    /\ eventLog = NothingLogged
    /\ transactionService = NoHandle
    /\ history = <<>>
    /\ derivations = <<>>
    /\ inflight = [slot \in 1..MaxCalls |-> NoCall]
    /\ registry = NewRegistry

HostInit ==
    /\ toolCall = NoToolCall
    /\ envFile = NoFile
    /\ processEnv = Undefined
    /\ configService = ConfigIdle(NullValue)
    /\ seedWrites = 0
    /\ resolvedSeeds = <<>>
    /\ ServicesInit

Init == WalletInit /\ HostInit

-----------------------------------------------------------------------------
(* WalletService.initialize, one action per await point *)

InitFailed ==
    Op("initialize", Undefined, VoidValue,
       createWalletApiError("WALLET_INIT_FAILED"), <<>>, VoidValue)

InitPending(step) ==
    Op("initialize", Undefined, [kind |-> "step", step |-> step],
       "pending", <<>>, VoidValue)

InitDone ==
    Op("initialize", Undefined, VoidValue, "ok", <<>>, VoidValue)

\* lines 56-58: new Database, new SqliteRepositories, repositories.init()
InitOpenStorage ==
    /\ initPc = "idle"
    /\ dbCount < MaxInits
    /\ dbCount' = dbCount + 1
    /\ database' = dbCount + 1
    /\ repositories' = dbCount + 1
    /\ openDbs' = openDbs \cup {dbCount + 1}
    /\ initPc' = "repoInit"
    /\ SetOp(InitPending("open storage"))
    /\ UNCHANGED <<manager, quoteService, eventService, engines, watchers,
                   listening, initOk>>
    /\ UNCHANGED storeVars

\* lines 58-71: repositories.init() settles; on success the seedGetter
\* closure is built and initializeCoco is called
InitReposReady ==
    /\ initPc = "repoInit"
    /\ \E ok \in BOOLEAN :
        IF ok
        THEN /\ initPc' = "coco"
             /\ SetOp(InitPending("repositories ready"))
        ELSE /\ initPc' = "idle"
             /\ SetOp(InitFailed)
    /\ UNCHANGED <<database, repositories, manager, quoteService,
                   eventService, dbCount, openDbs, engines, watchers,
                   listening, initOk>>
    /\ UNCHANGED storeVars

\* EventService.initialize (lines 17-30) up to its return
EventServiceInitialize(svc, mgr) ==
    IF svc.initialized
    THEN svc
    ELSE [manager |-> mgr, initialized |-> TRUE, readyState |-> TRUE]

\* EventService.setupEventListeners runs only on the first initialize
EventListenersAfter(svc, mgr) ==
    IF svc.initialized THEN listening ELSE listening \cup {mgr}

\* lines 67-74: initializeCoco settles; on success this.manager is assigned
\* and eventService.initialize(this.manager) is called
InitEngineBuilt ==
    /\ initPc = "coco"
    /\ \E ok \in BOOLEAN :
        IF ok
        THEN /\ engines' = engines \cup {repositories}
             /\ manager' = repositories
             /\ eventService' = EventServiceInitialize(eventService, repositories)
             /\ listening' = EventListenersAfter(eventService, repositories)
             /\ initPc' = "eventInit"
             /\ SetOp(InitPending("engine constructed"))
        ELSE /\ initPc' = "idle"
             /\ SetOp(InitFailed)
             /\ UNCHANGED <<engines, manager, eventService, listening>>
    /\ UNCHANGED <<database, repositories, quoteService, dbCount, openDbs,
                   watchers, initOk>>
    /\ UNCHANGED storeVars

\* lines 77-81 with QuoteService.initialize lines 10-22: an initialized
\* QuoteService returns at once; otherwise it binds its handles and starts
\* enableQuoteWatchers
InitEventDone ==
    /\ initPc = "eventInit"
    /\ IF quoteService.initialized
       THEN /\ initPc' = "idle"
            /\ initOk' = TRUE
            /\ SetOp(InitDone)
            /\ UNCHANGED quoteService
       ELSE /\ quoteService' = [quoteService EXCEPT
                                  !.manager = manager,
                                  !.repositories = repositories]
            /\ initPc' = "watch1"
            /\ SetOp(InitPending("event service ready"))
            /\ UNCHANGED initOk
    /\ UNCHANGED <<database, repositories, manager, eventService, dbCount,
                   openDbs, engines, watchers, listening>>
    /\ UNCHANGED storeVars

WatchPc == <<"watch1", "watch2", "watch3">>

\* QuoteService.enableQuoteWatchers lines 35-46, then initialize lines 24-26:
\* the i-th enable call settles
InitWatcherEnabled(i) ==
    /\ initPc = WatchPc[i]
    /\ \E ok \in BOOLEAN :
        IF ok
        THEN /\ watchers' = watchers \cup {<<quoteService.manager, WatcherNames[i]>>}
             /\ IF i < Len(WatcherNames)
                THEN /\ initPc' = WatchPc[i + 1]
                     /\ SetOp(InitPending(WatcherNames[i]))
                     /\ UNCHANGED <<quoteService, initOk>>
                ELSE /\ quoteService' = [quoteService EXCEPT
                                           !.initialized = TRUE,
                                           !.readyState = TRUE]
                     /\ initPc' = "idle"
                     /\ initOk' = TRUE
                     /\ SetOp(InitDone)
        ELSE /\ initPc' = "idle"
             /\ SetOp(InitFailed)
             /\ UNCHANGED <<watchers, quoteService, initOk>>
    /\ UNCHANGED <<database, repositories, manager, eventService, dbCount,
                   openDbs, engines, listening>>
    /\ UNCHANGED storeVars

Initialize ==
    \/ InitOpenStorage
    \/ InitReposReady
    \/ InitEngineBuilt
    \/ InitEventDone
    \/ \E i \in 1..Len(WatcherNames) : InitWatcherEnabled(i)

-----------------------------------------------------------------------------
(* WalletService.cleanup (lines 454-466), with EventService.cleanup and      *)
(* QuoteService.cleanup                                                    *)

\* cleanup letting a close failure escape instead of logging it
CleanupThrowsOnCloseFailure ==
    /\ initPc = "idle"
    /\ \E closeFails \in BOOLEAN :
        IF database # NoHandle /\ closeFails
        THEN /\ SetOp(Op("cleanup", Undefined, VoidValue, EngineError, <<>>,
                         VoidValue))
             /\ UNCHANGED <<database, quoteService, eventService, manager,
                            initOk, openDbs>>
        ELSE /\ openDbs' = openDbs \ {database}
             /\ database' = NoHandle
             /\ quoteService' = QuoteServiceReset
             /\ eventService' = EventServiceReset
             /\ manager' = NoHandle
             /\ initOk' = FALSE
             /\ SetOp(Op("cleanup", Undefined, VoidValue, "ok", <<>>, VoidValue))
    /\ UNCHANGED <<repositories, initPc, dbCount, engines, watchers, listening>>
    /\ UNCHANGED storeVars

Cleanup ==
    /\ initPc = "idle"
    /\ \E closeFails \in BOOLEAN :
        openDbs' = IF database # NoHandle /\ ~closeFails
                   THEN openDbs \ {database}
                   ELSE openDbs
    /\ database' = NoHandle
    /\ quoteService' = QuoteServiceReset
    /\ eventService' = EventServiceReset
    /\ manager' = NoHandle
    /\ initOk' = FALSE
    /\ emitter' = {}
    /\ Record(Op("cleanup", Undefined, VoidValue, "ok", <<>>, VoidValue))
    /\ UNCHANGED <<repositories, initPc, dbCount, engines, watchers, listening>>
    /\ UNCHANGED storeVars

-----------------------------------------------------------------------------
(* Guards and calls shared by the operations *)

\* bound on the balance one mint can hold
MaxBalance == 250

\* ServiceUtils.validateServiceInitialized: passes iff the manager is set
validateServiceInitialized(mgr) == mgr # NoHandle

\* ServiceUtils.validateDependencies: passes iff the dependency is set
validateDependencies(dep) == dep # NoHandle

NotInitialized == createWalletApiError("WALLET_NOT_INITIALIZED")

DependenciesMissing == createWalletApiError("SERVICE_NOT_INITIALIZED")

\* a call through handle h (an engine, or the repositories object) completes
\* iff the database under it is open and the collaborator does not throw
CallOk(h, fault) == h \in openDbs /\ ~fault

\* a map entry that is present with the value undefined
UndefinedBalance == -1

KnownUrls(ms) == {ms[i].mintUrl : i \in 1..Len(ms)}

MintAt(ms, url) == ms[CHOOSE i \in 1..Len(ms) : ms[i].mintUrl = url]

\* Coco Mint -> MintInfo (lastChecked carries updatedAt, which is not modelled)
ToMintInfo(m) == [kind |-> "mintInfo", mintUrl |-> m.mintUrl, trusted |-> m.trusted]

\* manager.mint.getAllTrustedMints()
getAllTrustedMints(ms) == SelectSeq(ms, LAMBDA m : m.trusted)

\* manager.mint.trustMint / untrustMint: flips the flag of one mint
SetTrusted(ms, url, flag) ==
    [i \in 1..Len(ms) |->
        IF ms[i].mintUrl = url THEN [ms[i] EXCEPT !.trusted = flag] ELSE ms[i]]

\* a delete that leaves the row in place
deleteMintKeepsRow(ms, url) == ms

\* mintRepository.deleteMint: deletes the row of one mint
deleteMint(ms, url) == SelectSeq(ms, LAMBDA m : m.mintUrl # url)

OnlyOp(o) ==
    /\ SetOp(o)
    /\ UNCHANGED lifecycleVars

-----------------------------------------------------------------------------
(* WalletService.getBalance (lines 91-117) *)

RECURSIVE SumKeysUnguarded(_, _)
\* the loop without the test of line 105
SumKeysUnguarded(balances, keys) ==
    IF keys = {}
    THEN 0
    ELSE LET mintUrl == CHOOSE k \in keys : TRUE
         IN  balances[mintUrl] + SumKeysUnguarded(balances, keys \ {mintUrl})

RECURSIVE SumKeys(_, _)
\* the for-in loop of lines 101-108 over the keys still to visit
SumKeys(balances, keys) ==
    IF keys = {}
    THEN 0
    ELSE LET mintUrl == CHOOSE k \in keys : TRUE
             balance == balances[mintUrl]
         IN  (IF balance # UndefinedBalance THEN balance ELSE 0)
             + SumKeys(balances, keys \ {mintUrl})

getBalance(fault, balances) ==
    IF ~validateServiceInitialized(manager)
    THEN Op("getBalance", Undefined, VoidValue, NotInitialized, <<>>, VoidValue)
    ELSE IF ~CallOk(manager, fault)
    THEN Op("getBalance", Undefined, VoidValue, withServiceError("get balance"),
            <<"wallet.getBalances">>, VoidValue)
    ELSE Op("getBalance", Undefined, [kind |-> "balances", map |-> balances],
            "ok", <<"wallet.getBalances">>,
            [kind |-> "balance",
             total |-> SumKeys(balances, DOMAIN balances),
             breakdown |-> balances])

\* manager.wallet.getBalances(): the balance of every mint holding proofs;
\* a further key may be present with no value
EngineBalances(undef) ==
    [u \in DOMAIN proofs \cup undef |->
        IF u \in DOMAIN proofs THEN proofs[u] ELSE UndefinedBalance]

GetBalance ==
    /\ initPc = "idle"
    /\ \E fault \in BOOLEAN, undef \in SUBSET (MintUrls \ DOMAIN proofs) :
        OnlyOp(getBalance(fault, EngineBalances(undef)))
    /\ UNCHANGED storeVars

-----------------------------------------------------------------------------
(* Mint management (lines 241-395) *)

AddMintArg(trusted) == [kind |-> "addMint", trusted |-> trusted]

\* params.trusted ?? true
TrustedOrDefaultTrue(trusted) == IF trusted = Undefined THEN TRUE ELSE trusted = "true"

\* line 251: params.trusted ?? false
TrustedOrDefault(trusted) == IF trusted = Undefined THEN FALSE ELSE trusted = "true"

\* manager.mint.addMint(url, {trusted}): a new mint is stored with the flag;
\* for a known mint the engine either applies the flag or leaves the row
EngineAddMint(ms, url, flag, apply) ==
    IF url \notin KnownUrls(ms)
    THEN Append(ms, [mintUrl |-> url, trusted |-> flag])
    ELSE IF apply THEN SetTrusted(ms, url, flag) ELSE ms

AddMint(url, trusted) ==
    /\ initPc = "idle"
    /\ \E fault \in BOOLEAN, apply \in BOOLEAN :
        IF ~validateServiceInitialized(manager)
        THEN /\ OnlyOp(Op("addMint", url, AddMintArg(trusted), NotInitialized,
                          <<>>, VoidValue))
             /\ UNCHANGED mints
        ELSE IF ~CallOk(manager, fault)
        THEN /\ OnlyOp(Op("addMint", url, AddMintArg(trusted),
                          withServiceError("add mint"),
                          <<"mint.addMint">>, VoidValue))
             /\ UNCHANGED mints
        ELSE /\ mints' = EngineAddMint(mints, url, TrustedOrDefault(trusted), apply)
             /\ OnlyOp(Op("addMint", url,
                          [kind |-> "addMint", trusted |-> trusted,
                           isNew |-> url \notin KnownUrls(mints)],
                          "ok", <<"mint.addMint">>,
                          ToMintInfo(MintAt(mints', url))))
    /\ UNCHANGED <<proofs, mintQuotes, meltQuotes>>

\* the counts taken over the filtered list instead of all mints
listMintsCountsFiltered(allMints, filter) ==
    LET filteredMints ==
            IF filter = "trusted"
            THEN SelectSeq(allMints, LAMBDA mint : mint.trusted)
            ELSE IF filter = "untrusted"
            THEN SelectSeq(allMints, LAMBDA mint : ~mint.trusted)
            ELSE allMints
    IN  [kind |-> "mintsList",
         mints |-> [i \in 1..Len(filteredMints) |-> ToMintInfo(filteredMints[i])],
         total |-> Len(filteredMints),
         trusted |-> Len(SelectSeq(filteredMints, LAMBDA mint : mint.trusted)),
         untrusted |-> Len(SelectSeq(filteredMints, LAMBDA mint : ~mint.trusted))]

\* lines 281-308: the filtered projection and the counts
listMints(allMints, filter) ==
    LET filteredMints ==
            IF filter = "trusted"
            THEN SelectSeq(allMints, LAMBDA mint : mint.trusted)
            ELSE IF filter = "untrusted"
            THEN SelectSeq(allMints, LAMBDA mint : ~mint.trusted)
            ELSE allMints
    IN  [kind |-> "mintsList",
         mints |-> [i \in 1..Len(filteredMints) |-> ToMintInfo(filteredMints[i])],
         total |-> Len(allMints),
         trusted |-> Len(SelectSeq(allMints, LAMBDA mint : mint.trusted)),
         untrusted |-> Len(SelectSeq(allMints, LAMBDA mint : ~mint.trusted))]

ListFilters == {"all", "trusted", "untrusted", Undefined}

ListMints(filter) ==
    /\ initPc = "idle"
    /\ \E fault \in BOOLEAN :
        LET arg == [kind |-> "listMints", filter |-> filter] IN
        IF ~validateServiceInitialized(manager)
        THEN OnlyOp(Op("listMints", Undefined, arg, NotInitialized, <<>>, VoidValue))
        ELSE IF ~validateDependencies(repositories)
        THEN OnlyOp(Op("listMints", Undefined, arg, DependenciesMissing, <<>>, VoidValue))
        ELSE IF ~CallOk(manager, fault)
        THEN OnlyOp(Op("listMints", Undefined, arg, withServiceError("list mints"),
                       <<"mint.getAllMints">>, VoidValue))
        ELSE OnlyOp(Op("listMints", Undefined, arg, "ok",
                       <<"mint.getAllMints">>, listMints(mints, filter)))
    /\ UNCHANGED storeVars

\* trustMint (lines 315-344) and untrustMint (lines 346-375) differ in the
\* engine call and the operation name only
FlipTrust(opName, serviceName, engineCall, url, flag) ==
    /\ initPc = "idle"
    /\ \E fault \in 0..2 :
        LET arg == [kind |-> "trust"] IN
        IF ~validateServiceInitialized(manager)
        THEN /\ OnlyOp(Op(opName, url, arg, NotInitialized, <<>>, VoidValue))
             /\ UNCHANGED mints
        ELSE IF ~validateDependencies(repositories)
        THEN /\ OnlyOp(Op(opName, url, arg, DependenciesMissing, <<>>, VoidValue))
             /\ UNCHANGED mints
        ELSE IF ~CallOk(manager, fault = 1) \/ url \notin KnownUrls(mints)
        THEN \* the engine throws: database closed, fault, or unknown mint
             /\ OnlyOp(Op(opName, url, arg, withServiceError(serviceName),
                          <<engineCall>>, VoidValue))
             /\ UNCHANGED mints
        ELSE /\ mints' = SetTrusted(mints, url, flag)
             /\ IF ~CallOk(repositories, fault = 2)
                THEN OnlyOp(Op(opName, url, arg, withServiceError(serviceName),
                               <<engineCall, "mintRepository.getMintByUrl">>,
                               VoidValue))
                ELSE OnlyOp(Op(opName, url, arg, "ok",
                               <<engineCall, "mintRepository.getMintByUrl">>,
                               ToMintInfo(MintAt(mints', url))))
    /\ UNCHANGED <<proofs, mintQuotes, meltQuotes>>

TrustMint(url) ==
    FlipTrust("trustMint", "trust mint", "mint.trustMint", url, TRUE)

\* untrustMint calling manager.mint.trustMint
UntrustMintCallsTrust(url) ==
    FlipTrust("untrustMint", "untrust mint", "mint.trustMint", url, TRUE)

\* untrustMint deleting the mint row
UntrustMintDeletesMint(url) ==
    /\ initPc = "idle"
    /\ validateServiceInitialized(manager)
    /\ mints' = deleteMint(mints, url)
    /\ OnlyOp(Op("untrustMint", url, [kind |-> "trust"], "ok",
                 <<"mintRepository.deleteMint">>, VoidValue))
    /\ UNCHANGED <<proofs, mintQuotes, meltQuotes>>

UntrustMint(url) ==
    FlipTrust("untrustMint", "untrust mint", "mint.untrustMint", url, FALSE)

RemoveMint(url) ==
    /\ initPc = "idle"
    /\ \E fault \in BOOLEAN :
        LET arg == [kind |-> "removeMint",
                    soleTrusted |-> getAllTrustedMints(mints)
                                      = <<[mintUrl |-> url, trusted |-> TRUE]>>]
        IN
        IF ~validateServiceInitialized(manager)
        THEN /\ OnlyOp(Op("removeMint", url, arg, NotInitialized, <<>>, VoidValue))
             /\ UNCHANGED mints
        ELSE IF ~validateDependencies(repositories)
        THEN /\ OnlyOp(Op("removeMint", url, arg, DependenciesMissing, <<>>, VoidValue))
             /\ UNCHANGED mints
        ELSE IF ~CallOk(repositories, fault)
        THEN /\ OnlyOp(Op("removeMint", url, arg, withServiceError("remove mint"),
                          <<"mintRepository.deleteMint">>, VoidValue))
             /\ UNCHANGED mints
        ELSE /\ mints' = deleteMint(mints, url)
             /\ OnlyOp(Op("removeMint", url, arg, "ok",
                          <<"mintRepository.deleteMint">>, VoidValue))
    /\ UNCHANGED <<proofs, mintQuotes, meltQuotes>>

-----------------------------------------------------------------------------
(* Default-mint resolution (MintUtils.getDefaultMintUrl, lines 4-23) *)

NoTrustedMints == createWalletApiError("NO_TRUSTED_MINTS")

\* the last trusted mint instead of the first
getDefaultMintUrlLast(ms, fault) ==
    IF ~CallOk(manager, fault)
    THEN [status |-> EngineError, url |-> Undefined]
    ELSE LET trustedMints == SelectSeq(ms, LAMBDA m : m.trusted) IN
         IF Len(trustedMints) = 0
         THEN [status |-> createWalletApiError("NO_TRUSTED_MINTS"), url |-> Undefined]
         ELSE [status |-> "ok", url |-> trustedMints[Len(trustedMints)].mintUrl]

\* the outcome of getDefaultMintUrl: an error status, or "ok" with the URL
getDefaultMintUrl(ms, fault) ==
    IF ~CallOk(manager, fault)
    THEN [status |-> EngineError, url |-> Undefined]
    ELSE LET trustedMints == getAllTrustedMints(ms) IN
         IF Len(trustedMints) = 0
         THEN [status |-> NoTrustedMints, url |-> Undefined]
         ELSE [status |-> "ok", url |-> trustedMints[1].mintUrl]

UrlValue(url) == [kind |-> "url", url |-> url]

ResolveArg(threw) == [kind |-> "resolve", threw |-> threw]

\* the result of a call that ends in getDefaultMintUrl
DefaultMintResult(opName, mintUrl, fault) ==
    LET r == getDefaultMintUrl(mints, fault) IN
    Op(opName, mintUrl, ResolveArg(r.status = EngineError), r.status,
       <<"mint.getAllTrustedMints">>,
       IF r.status = "ok" THEN UrlValue(r.url) ELSE VoidValue)

\* the left operand of line 234's "mintUrl || ..." counts as present
Truthy(mintUrl) == mintUrl # Undefined /\ mintUrl # EmptyUrl

\* resolveMintUrl returning a supplied URL only when that mint is trusted
ResolveMintUrlChecksTrust(mintUrl) ==
    /\ initPc = "idle"
    /\ \E fault \in BOOLEAN :
        IF ~validateServiceInitialized(manager)
        THEN OnlyOp(Op("resolveMintUrl", mintUrl, ResolveArg(FALSE),
                       NotInitialized, <<>>, VoidValue))
        ELSE IF Truthy(mintUrl) /\ mintUrl \in KnownUrls(getAllTrustedMints(mints))
        THEN OnlyOp(Op("resolveMintUrl", mintUrl, ResolveArg(FALSE), "ok",
                       <<"mint.getAllTrustedMints">>, UrlValue(mintUrl)))
        ELSE OnlyOp(DefaultMintResult("resolveMintUrl", mintUrl, fault))
    /\ UNCHANGED storeVars

\* WalletService.resolveMintUrl (lines 229-235)
ResolveMintUrl(mintUrl) ==
    /\ initPc = "idle"
    /\ \E fault \in BOOLEAN :
        IF ~validateServiceInitialized(manager)
        THEN OnlyOp(Op("resolveMintUrl", mintUrl, ResolveArg(FALSE),
                       NotInitialized, <<>>, VoidValue))
        ELSE IF Truthy(mintUrl)
        THEN OnlyOp(Op("resolveMintUrl", mintUrl, ResolveArg(FALSE), "ok",
                       <<>>, UrlValue(mintUrl)))
        ELSE OnlyOp(DefaultMintResult("resolveMintUrl", mintUrl, fault))
    /\ UNCHANGED storeVars

\* WalletService.getDefaultMint (lines 175-181)
GetDefaultMint ==
    /\ initPc = "idle"
    /\ \E fault \in BOOLEAN :
        IF ~validateServiceInitialized(manager)
        THEN OnlyOp(Op("getDefaultMint", Undefined, ResolveArg(FALSE),
                       NotInitialized, <<>>, VoidValue))
        ELSE OnlyOp(DefaultMintResult("getDefaultMint", Undefined, fault))
    /\ UNCHANGED storeVars

-----------------------------------------------------------------------------
(* Bearer tokens (lines 400-452) *)

BalanceOf(pr, url) == IF url \in DOMAIN pr THEN pr[url] ELSE 0

SetBalance(pr, url, amount) ==
    [u \in DOMAIN pr \cup {url} |-> IF u = url THEN amount ELSE pr[u]]

IsTrusted(ms, url) == url \in KnownUrls(ms) /\ MintAt(ms, url).trusted

\* WalletService.receiveTokens: the token names its mint and its amount; the
\* engine redeems it at a trusted mint
ReceiveTokens(url, amount) ==
    /\ initPc = "idle"
    /\ BalanceOf(proofs, url) + amount <= MaxBalance
    /\ \E fault \in BOOLEAN :
        LET arg == [kind |-> "token", amount |-> amount] IN
        IF ~validateServiceInitialized(manager)
        THEN /\ OnlyOp(Op("receiveTokens", url, arg, NotInitialized, <<>>, VoidValue))
             /\ UNCHANGED proofs
        ELSE IF ~CallOk(manager, fault) \/ ~IsTrusted(mints, url)
        THEN /\ OnlyOp(Op("receiveTokens", url, arg, withServiceError("receive tokens"),
                          <<"wallet.receive">>, VoidValue))
             /\ UNCHANGED proofs
        ELSE /\ proofs' = SetBalance(proofs, url, BalanceOf(proofs, url) + amount)
             /\ OnlyOp(Op("receiveTokens", url, arg, "ok", <<"wallet.receive">>,
                          [kind |-> "receive", success |-> TRUE]))
    /\ UNCHANGED <<mints, mintQuotes, meltQuotes>>

\* WalletService.sendTokens: resolveMintUrl runs inside withServiceError
SendTokens(amount, mintUrl) ==
    /\ initPc = "idle"
    /\ \E fault \in 0..2 :
        LET arg == [kind |-> "send", amount |-> amount]
            failed(calls) == Op("sendTokens", mintUrl, arg,
                                withServiceError("send tokens"), calls, VoidValue)
        IN
        IF ~validateServiceInitialized(manager)
        THEN /\ OnlyOp(Op("sendTokens", mintUrl, arg, NotInitialized, <<>>, VoidValue))
             /\ UNCHANGED proofs
        ELSE LET r == IF Truthy(mintUrl)
                      THEN [status |-> "ok", url |-> mintUrl]
                      ELSE getDefaultMintUrl(mints, fault = 1)
                 resolveCalls == IF Truthy(mintUrl)
                                 THEN <<>>
                                 ELSE <<"mint.getAllTrustedMints">>
             IN
             IF r.status # "ok"
             THEN /\ OnlyOp(failed(resolveCalls))
                  /\ UNCHANGED proofs
             ELSE IF \/ ~CallOk(manager, fault = 2)
                     \/ BalanceOf(proofs, r.url) < amount
             THEN /\ OnlyOp(failed(Append(resolveCalls, "wallet.send")))
                  /\ UNCHANGED proofs
             ELSE /\ proofs' = SetBalance(proofs, r.url,
                                          BalanceOf(proofs, r.url) - amount)
                  /\ OnlyOp(Op("sendTokens", mintUrl, arg, "ok",
                               Append(resolveCalls, "wallet.send"),
                               [kind |-> "send", amount |-> amount,
                                mintUrl |-> r.url]))
    /\ UNCHANGED <<mints, mintQuotes, meltQuotes>>

-----------------------------------------------------------------------------
(* Quotes: pass-throughs to the engine (lines 191-227) *)

Put(table, key, rec) ==
    [k \in DOMAIN table \cup {key} |-> IF k = key THEN rec ELSE table[k]]

MintQuoteRecord(url, id, amount, state) ==
    [kind |-> "mintQuote", quote |-> id, mintUrl |-> url,
     amount |-> amount, state |-> state]

MeltQuoteRecord(url, id, amount, state) ==
    [kind |-> "meltQuote", quote |-> id, mintUrl |-> url,
     amount |-> amount, state |-> state]

QuoteCount == Cardinality(DOMAIN mintQuotes) + Cardinality(DOMAIN meltQuotes)

\* WalletService.createMintQuote: the mint issues an id it has not used for
\* a mint quote before
CreateMintQuote(url, amount) ==
    /\ initPc = "idle"
    /\ QuoteCount < MaxQuotes
    /\ \E fault \in BOOLEAN, id \in QuoteIds :
        LET arg == [kind |-> "quote", amount |-> amount] IN
        IF ~validateServiceInitialized(manager)
        THEN /\ OnlyOp(Op("createMintQuote", url, arg, NotInitialized, <<>>, VoidValue))
             /\ UNCHANGED mintQuotes
        ELSE IF \/ ~CallOk(manager, fault)
                \/ ~IsTrusted(mints, url)
                \/ <<url, id>> \in DOMAIN mintQuotes
        THEN /\ OnlyOp(Op("createMintQuote", url, arg, EngineError,
                          <<"quotes.createMintQuote">>, VoidValue))
             /\ UNCHANGED mintQuotes
        ELSE /\ mintQuotes' = Put(mintQuotes, <<url, id>>,
                                  MintQuoteRecord(url, id, amount, "UNPAID"))
             /\ OnlyOp(Op("createMintQuote", url, arg, "ok",
                          <<"quotes.createMintQuote">>,
                          MintQuoteRecord(url, id, amount, "UNPAID")))
    /\ UNCHANGED <<mints, proofs, meltQuotes>>

\* WalletService.createMeltQuote: the invoice fixes the amount
CreateMeltQuote(url, amount) ==
    /\ initPc = "idle"
    /\ QuoteCount < MaxQuotes
    /\ \E fault \in BOOLEAN, id \in QuoteIds :
        LET arg == [kind |-> "invoice", amount |-> amount] IN
        IF ~validateServiceInitialized(manager)
        THEN /\ OnlyOp(Op("createMeltQuote", url, arg, NotInitialized, <<>>, VoidValue))
             /\ UNCHANGED meltQuotes
        ELSE IF \/ ~CallOk(manager, fault)
                \/ ~IsTrusted(mints, url)
                \/ <<url, id>> \in DOMAIN meltQuotes
        THEN /\ OnlyOp(Op("createMeltQuote", url, arg, EngineError,
                          <<"quotes.createMeltQuote">>, VoidValue))
             /\ UNCHANGED meltQuotes
        ELSE /\ meltQuotes' = Put(meltQuotes, <<url, id>>,
                                  MeltQuoteRecord(url, id, amount, "UNPAID"))
             /\ OnlyOp(Op("createMeltQuote", url, arg, "ok",
                          <<"quotes.createMeltQuote">>,
                          MeltQuoteRecord(url, id, amount, "UNPAID")))
    /\ UNCHANGED <<mints, proofs, mintQuotes>>

\* WalletService.payMeltQuote: the engine spends proofs of the mint
PayMeltQuote(url, id) ==
    /\ initPc = "idle"
    /\ \E fault \in BOOLEAN :
        LET arg == [kind |-> "quoteId", quoteId |-> id] IN
        IF ~validateServiceInitialized(manager)
        THEN /\ OnlyOp(Op("payMeltQuote", url, arg, NotInitialized, <<>>, VoidValue))
             /\ UNCHANGED <<proofs, meltQuotes>>
        ELSE IF \/ ~CallOk(manager, fault)
                \/ <<url, id>> \notin DOMAIN meltQuotes
                \/ meltQuotes[<<url, id>>].state # "UNPAID"
                \/ BalanceOf(proofs, url) < meltQuotes[<<url, id>>].amount
        THEN /\ OnlyOp(Op("payMeltQuote", url, arg, EngineError,
                          <<"quotes.payMeltQuote">>, VoidValue))
             /\ UNCHANGED <<proofs, meltQuotes>>
        ELSE /\ meltQuotes' = [meltQuotes EXCEPT ![<<url, id>>].state = "PAID"]
             /\ proofs' = SetBalance(proofs, url,
                             BalanceOf(proofs, url) - meltQuotes[<<url, id>>].amount)
             /\ OnlyOp(Op("payMeltQuote", url, arg, "ok",
                          <<"quotes.payMeltQuote">>, VoidValue))
    /\ UNCHANGED <<mints, mintQuotes>>

\* the engine turns a paid mint quote into proofs
Redeemable(url, id) ==
    /\ <<url, id>> \in DOMAIN mintQuotes
    /\ mintQuotes[<<url, id>>].state = "PAID"
    /\ BalanceOf(proofs, url) + mintQuotes[<<url, id>>].amount <= MaxBalance

RedeemEffect(url, id) ==
    /\ mintQuotes' = [mintQuotes EXCEPT ![<<url, id>>].state = "ISSUED"]
    /\ proofs' = SetBalance(proofs, url,
                    BalanceOf(proofs, url) + mintQuotes[<<url, id>>].amount)

\* WalletService.redeemMintQuote
RedeemMintQuote(url, id) ==
    /\ initPc = "idle"
    /\ \E fault \in BOOLEAN :
        LET arg == [kind |-> "quoteId", quoteId |-> id] IN
        IF ~validateServiceInitialized(manager)
        THEN /\ OnlyOp(Op("redeemMintQuote", url, arg, NotInitialized, <<>>, VoidValue))
             /\ UNCHANGED <<proofs, mintQuotes>>
        ELSE IF ~CallOk(manager, fault) \/ ~Redeemable(url, id)
        THEN /\ OnlyOp(Op("redeemMintQuote", url, arg, EngineError,
                          <<"quotes.redeemMintQuote">>, VoidValue))
             /\ UNCHANGED <<proofs, mintQuotes>>
        ELSE /\ RedeemEffect(url, id)
             /\ OnlyOp(Op("redeemMintQuote", url, arg, "ok",
                          <<"quotes.redeemMintQuote">>, VoidValue))
    /\ UNCHANGED <<mints, meltQuotes>>

-----------------------------------------------------------------------------
(* Background work of the engine, once its watchers/processors are enabled *)

Running(w) == \E e \in engines : e \in openDbs /\ <<e, w>> \in watchers

EngineOp(name, url, id) ==
    Op(name, url, [kind |-> "quoteId", quoteId |-> id], "ok", <<>>, VoidValue)

\* the mint-quote watcher sees the invoice of a mint quote being paid
WatcherSeesPayment(url, id) ==
    /\ Running("mintQuoteWatcher")
    /\ <<url, id>> \in DOMAIN mintQuotes
    /\ mintQuotes[<<url, id>>].state = "UNPAID"
    /\ mintQuotes' = [mintQuotes EXCEPT ![<<url, id>>].state = "PAID"]
    /\ OnlyOp(EngineOp("engine:mint-quote:state-changed", url, id))
    /\ UNCHANGED <<mints, proofs, meltQuotes>>

\* the mint-quote processor redeems a paid mint quote
ProcessorRedeems(url, id) ==
    /\ Running("mintQuoteProcessor")
    /\ Redeemable(url, id)
    /\ RedeemEffect(url, id)
    /\ OnlyOp(EngineOp("engine:mint-quote:redeemed", url, id))
    /\ UNCHANGED <<mints, meltQuotes>>

-----------------------------------------------------------------------------
(* QuoteService.checkQuoteStatus (lines 49-82) *)

Lookup(table, key) == IF key \in DOMAIN table THEN table[key] ELSE NullValue

CheckArg(quoteId, threw) == [kind |-> "check", quoteId |-> quoteId, threw |-> threw]

\* the two lookups in the other order
checkQuoteStatusMeltFirst(quoteId, mintUrl, fault) ==
    LET repos == quoteService.repositories
        mintQuote == Lookup(mintQuotes, <<mintUrl, quoteId>>)
        meltQuote == Lookup(meltQuotes, <<mintUrl, quoteId>>)
    IN
    IF ~validateDependencies(repos)
    THEN Op("checkQuoteStatus", mintUrl, CheckArg(quoteId, FALSE),
            DependenciesMissing, <<>>, VoidValue)
    ELSE IF ~CallOk(repos, fault # 0)
    THEN Op("checkQuoteStatus", mintUrl, CheckArg(quoteId, TRUE),
            withServiceError("check quote status"),
            <<"meltQuoteRepository.getMeltQuote">>, VoidValue)
    ELSE Op("checkQuoteStatus", mintUrl, CheckArg(quoteId, FALSE), "ok",
            <<"meltQuoteRepository.getMeltQuote",
              "mintQuoteRepository.getMintQuote">>,
            IF meltQuote # NullValue THEN meltQuote ELSE mintQuote)

\* fault = 1: getMintQuote throws; fault = 2: getMeltQuote throws
checkQuoteStatus(quoteId, mintUrl, fault) ==
    LET targetMintUrl == mintUrl
        repos == quoteService.repositories
        mintQuote == Lookup(mintQuotes, <<targetMintUrl, quoteId>>)
        meltQuote == Lookup(meltQuotes, <<targetMintUrl, quoteId>>)
        failed(calls) == Op("checkQuoteStatus", mintUrl, CheckArg(quoteId, TRUE),
                            withServiceError("check quote status"),
                            calls, VoidValue)
    IN
    IF ~validateDependencies(repos)
    THEN Op("checkQuoteStatus", mintUrl, CheckArg(quoteId, FALSE),
            DependenciesMissing, <<>>, VoidValue)
    ELSE IF ~CallOk(repos, fault = 1)
    THEN failed(<<"mintQuoteRepository.getMintQuote">>)
    ELSE IF mintQuote # NullValue
    THEN Op("checkQuoteStatus", mintUrl, CheckArg(quoteId, FALSE), "ok",
            <<"mintQuoteRepository.getMintQuote">>, mintQuote)
    ELSE IF ~CallOk(repos, fault = 2)
    THEN failed(<<"mintQuoteRepository.getMintQuote",
                  "meltQuoteRepository.getMeltQuote">>)
    ELSE Op("checkQuoteStatus", mintUrl, CheckArg(quoteId, FALSE), "ok",
            <<"mintQuoteRepository.getMintQuote",
              "meltQuoteRepository.getMeltQuote">>, meltQuote)

CheckQuoteStatus(quoteId, mintUrl) ==
    /\ initPc = "idle"
    /\ \E fault \in 0..2 : OnlyOp(checkQuoteStatus(quoteId, mintUrl, fault))
    /\ UNCHANGED storeVars

-----------------------------------------------------------------------------
(* The MCP tool adapter (McpToolFactory, and the callbacks registered inline) *)

\* JavaScript values a handler returns
JNull == [t |-> "null"]

JUndefined == [t |-> "undefined"]

JBool(b) == [t |-> "bool", v |-> b]

JNum(n) == [t |-> "num", v |-> n]

JStr(str) == [t |-> "str", v |-> str]

JArr(items) == [t |-> "arr", items |-> items]

JObj(keys, vals) == [t |-> "obj", keys |-> keys, vals |-> vals]

RECURSIVE Serialize(_, _)
RECURSIVE JoinItems(_, _, _)
RECURSIVE JoinProps(_, _, _, _)

\* the elements of an array, one per line; undefined serializes as null
JoinItems(items, i, indent) ==
    indent \o Serialize(items[i], indent)
    \o (IF i < Len(items) THEN ",\n" \o JoinItems(items, i + 1, indent) ELSE "")

\* the properties at the indexes idx, one per line
JoinProps(obj, idx, i, indent) ==
    indent \o "\"" \o obj.keys[idx[i]] \o "\": "
    \o Serialize(obj.vals[idx[i]], indent)
    \o (IF i < Len(idx) THEN ",\n" \o JoinProps(obj, idx, i + 1, indent) ELSE "")

\* JSON.stringify(v, null, 2) of a value nested at the given indentation
Serialize(v, indent) ==
    CASE v.t = "null" -> "null"
      [] v.t = "undefined" -> "null"
      [] v.t = "bool" -> IF v.v THEN "true" ELSE "false"
      [] v.t = "num" -> ToString(v.v)
      [] v.t = "str" -> "\"" \o v.v \o "\""
      [] v.t = "arr" ->
            IF Len(v.items) = 0
            THEN "[]"
            ELSE "[\n" \o JoinItems(v.items, 1, indent \o "  ")
                 \o "\n" \o indent \o "]"
      [] v.t = "obj" ->
            \* properties whose value is undefined are left out
            LET idx == SelectSeq([i \in 1..Len(v.keys) |-> i],
                                 LAMBDA i : v.vals[i].t # "undefined")
            IN  IF Len(idx) = 0
                THEN "{}"
                ELSE "{\n" \o JoinProps(v, idx, 1, indent \o "  ")
                     \o "\n" \o indent \o "}"

\* JSON.stringify(v, null, 2): undefined has no serialization
JSONstringify(v) == IF v.t = "undefined" THEN Undefined ELSE Serialize(v, "")

\* the values JavaScript treats as false
Falsy(v) ==
    \/ v.t \in {"null", "undefined"}
    \/ v.t = "bool" /\ ~v.v
    \/ v.t = "num" /\ v.v = 0
    \/ v.t = "str" /\ v.v = ""

\* a thrown value: an Error instance or not, with or without a code property
Thrown(isError, hasCode, code, message) ==
    [isError |-> isError, hasCode |-> hasCode, code |-> code,
     message |-> message]

\* new Error(message)
NewError(message) == Thrown(TRUE, FALSE, Undefined, message)

Returned(v) == [kind |-> "returned", value |-> v]

Threw(e) == [kind |-> "threw", error |-> e]

\* what a handler can return to the adapter
HandlerResults ==
    {JObj(<<"quote", "amount">>, <<JStr("abc"), JNum(100)>>),
     JObj(<<"success">>, <<JBool(FALSE)>>),
     JArr(<<>>),
     JArr(<<JObj(<<"id">>, <<JStr("t1")>>), JNull>>),
     JNull,
     JUndefined}

\* the options argument left out
NoOptions == [none |-> TRUE]

\* options?.transformResult ? options.transformResult(result) : result
StructuredContent(result, options) ==
    IF "transformResult" \in DOMAIN options
    THEN options.transformResult[result]
    ELSE result

\* the adapter re-throwing a coded error under its bare message
createToolHandlerDropsCode(outcome, options) ==
    IF outcome.kind = "returned"
    THEN LET structuredContent == StructuredContent(outcome.value, options) IN
         [kind |-> "returned",
          text |-> JSONstringify(structuredContent),
          structuredContent |-> structuredContent]
    ELSE LET error == outcome.error IN
         IF error.isError /\ error.hasCode
         THEN Threw(NewError(error.message))
         ELSE Threw(error)

\* the adapter serializing the handler's result instead of the structured form
createToolHandlerSerializesResult(outcome, options) ==
    IF outcome.kind = "returned"
    THEN [kind |-> "returned",
          text |-> JSONstringify(outcome.value),
          structuredContent |-> StructuredContent(outcome.value, options)]
    ELSE LET error == outcome.error IN
         IF error.isError /\ error.hasCode
         THEN Threw(NewError(error.code \o ": " \o error.message))
         ELSE Threw(error)

\* McpToolFactory.createToolHandler: the callback it returns, applied to a
\* handler that settles with outcome
createToolHandler(outcome, options) ==
    IF outcome.kind = "returned"
    THEN LET structuredContent == StructuredContent(outcome.value, options) IN
         [kind |-> "returned",
          text |-> JSONstringify(structuredContent),
          structuredContent |-> structuredContent]
    ELSE LET error == outcome.error IN
         IF error.isError /\ error.hasCode
         THEN Threw(NewError(error.code \o ": " \o error.message))
         ELSE Threw(error)

createArrayToolHandler(outcome, arrayKey) ==
    createToolHandler(outcome,
        [transformResult |->
            [result \in HandlerResults |-> JObj(<<arrayKey>>, <<result>>)]])

createSuccessToolHandler(outcome) ==
    createToolHandler(outcome,
        [transformResult |->
            [result \in HandlerResults |-> JObj(<<"success">>, <<JBool(TRUE)>>)]])

ToolNames ==
    {"pay_invoice", "make_invoice", "lookup_quote", "list_transactions",
     "get_balance", "add_mint", "list_mints", "trust_mint", "untrust_mint",
     "remove_mint", "receive_cashu", "send_cashu"}

\* registerWalletTools handing every handler to the factory
FactoryCallback(tool, outcome) ==
    IF tool = "list_transactions"
    THEN createArrayToolHandler(outcome, "transactions")
    ELSE IF tool = "remove_mint"
    THEN createSuccessToolHandler(outcome)
    ELSE createToolHandler(outcome, NoOptions)

\* registerWalletTools with the callbacks written out: the structured form
InlineStructuredContent(tool, result) ==
    IF tool = "lookup_quote"
    THEN (IF Falsy(result) THEN JObj(<<>>, <<>>) ELSE result)
    ELSE IF tool = "list_transactions"
    THEN JObj(<<"transactions">>, <<result>>)
    ELSE IF tool = "remove_mint"
    THEN JObj(<<"success">>, <<JBool(TRUE)>>)
    ELSE result

\* registerWalletTools with the callbacks written out: try / catch
InlineCallback(tool, outcome) ==
    IF outcome.kind = "returned"
    THEN LET structuredContent == InlineStructuredContent(tool, outcome.value) IN
         [kind |-> "returned",
          text |-> JSONstringify(structuredContent),
          structuredContent |-> structuredContent]
    ELSE LET error == outcome.error IN
         IF error.isError /\ error.hasCode
         THEN Threw(NewError(error.code \o ": " \o error.message))
         ELSE Threw(error)

\* what a handler can throw: errors of createWalletApiError, the plain Error
\* of the handlers' own guard, and a value that is not an Error
HandlerErrors ==
    {Thrown(TRUE, TRUE, "WALLET_NOT_INITIALIZED", "Wallet service not initialized"),
     Thrown(TRUE, TRUE, withServiceError("add mint"), "Failed to add mint"),
     Thrown(TRUE, FALSE, Undefined, "Wallet service not initialized"),
     Thrown(FALSE, TRUE, "ECONNRESET", "socket hang up"),
     Thrown(FALSE, FALSE, Undefined, "rejected")}

HandlerOutcomes ==
    {Returned(v) : v \in HandlerResults} \cup {Threw(e) : e \in HandlerErrors}

WalletUntouched ==
    UNCHANGED <<lifecycleVars, storeVars, lastOp, prevOp, eventVars, engineVars>>

ConfigUntouched ==
    UNCHANGED <<envFile, processEnv, configService, seedWrites, resolvedSeeds>>

\* a tool is invoked through the callback the factory built for it
FactoryToolCall(tool, outcome) ==
    /\ toolCall' = [registration |-> "factory", tool |-> tool,
                    outcome |-> outcome,
                    response |-> FactoryCallback(tool, outcome)]
    /\ WalletUntouched
    /\ ConfigUntouched

\* a tool is invoked through the callback registered inline
InlineToolCall(tool, outcome) ==
    /\ toolCall' = [registration |-> "inline", tool |-> tool,
                    outcome |-> outcome,
                    response |-> InlineCallback(tool, outcome)]
    /\ WalletUntouched
    /\ ConfigUntouched

-----------------------------------------------------------------------------
(* ConfigService: the wallet seed and the .env key-file *)

MnemonicNames == <<"legal winner", "letter advice", "zoo wrong", "void come">>

Mnemonics == {MnemonicNames[i] : i \in 1..NumMnemonics}

\* the content of the key-file: KEY="value" entries and line breaks
Entry(key, value) == [kind |-> "entry", key |-> key, value |-> value]

LineBreak == [kind |-> "nl"]

\* the keys whose line contains the text COCO_SEED=
KeyIncludesSeed(key) == key \in {"COCO_SEED", "OLD_COCO_SEED"}

\* envContent.includes("COCO_SEED=")
IncludesSeed(content) ==
    \E i \in 1..Len(content) :
        content[i].kind = "entry" /\ KeyIncludesSeed(content[i].key)

\* envContent.endsWith("\n")
EndsWithLineBreak(content) ==
    Len(content) > 0 /\ content[Len(content)] = LineBreak

\* line 150: the seed line, line break included
SeedLine(mnemonic) == <<Entry("COCO_SEED", mnemonic), LineBreak>>

\* the new content without the line break of line 153
newContentNoBreak(envContent, mnemonic) == envContent \o SeedLine(mnemonic)

\* lines 151-154
newContent(envContent, mnemonic) ==
    envContent
    \o (IF envContent # <<>> /\ ~EndsWithLineBreak(envContent)
        THEN <<LineBreak>>
        ELSE <<>>)
    \o SeedLine(mnemonic)

\* envConfig.COCO_SEED counts as supplied in line 28's "COCO_SEED || ..."
SeedSupplied(env) == env # Undefined /\ env # ""

ConfigOf(seed) == [kind |-> "config", seed |-> seed]

\* loadConfig returns: lines 50-55
LoadConfigReturns(seed) ==
    /\ configService' = ConfigIdle(ConfigOf(seed))
    /\ resolvedSeeds' = Append(resolvedSeeds, seed)

AdapterUntouched == UNCHANGED toolCall

\* loadConfig up to its first await: lines 25-28, generateSecureSeed lines
\* 99-125 and saveSeedToEnvFile lines 131-138
LoadConfig ==
    /\ configService.pc = "idle"
    /\ Len(resolvedSeeds) < MaxLoads
    /\ IF SeedSupplied(processEnv)
       THEN LoadConfigReturns(processEnv)
       ELSE \E mnemonic \in Mnemonics :
              /\ configService' =
                    [configService EXCEPT
                        !.pc = IF envFile.exists THEN "readFile" ELSE "writeFile",
                        !.mnemonic = mnemonic,
                        !.envContent = <<>>]
              /\ UNCHANGED resolvedSeeds
    /\ UNCHANGED <<envFile, processEnv, seedWrites>>
    /\ WalletUntouched
    /\ AdapterUntouched

\* readFile settling with the check of line 141 left out
ReadFileSettlesNoCheck ==
    /\ configService.pc = "readFile"
    /\ \E ok \in BOOLEAN :
        IF ok
        THEN /\ configService' = [configService EXCEPT
                                    !.pc = "writeFile",
                                    !.envContent = envFile.content]
             /\ UNCHANGED resolvedSeeds
        ELSE LoadConfigReturns(configService.mnemonic)
    /\ UNCHANGED <<envFile, processEnv, seedWrites>>
    /\ WalletUntouched
    /\ AdapterUntouched

\* readFile settles (line 138); lines 141-146 return when the content holds
\* the text COCO_SEED=; a failed read is caught at line 159
ReadFileSettles ==
    /\ configService.pc = "readFile"
    /\ \E ok \in BOOLEAN :
        IF ok /\ ~IncludesSeed(envFile.content)
        THEN /\ configService' = [configService EXCEPT
                                    !.pc = "writeFile",
                                    !.envContent = envFile.content]
             /\ UNCHANGED resolvedSeeds
        ELSE LoadConfigReturns(configService.mnemonic)
    /\ UNCHANGED <<envFile, processEnv, seedWrites>>
    /\ WalletUntouched
    /\ AdapterUntouched

\* writeFile settles (line 156); a failed write is caught at line 159 and
\* leaves the file as it was
WriteFileSettles ==
    /\ configService.pc = "writeFile"
    /\ \E ok \in BOOLEAN :
        IF ok
        THEN /\ envFile' = [exists |-> TRUE,
                            content |-> newContent(configService.envContent,
                                                   configService.mnemonic)]
             /\ seedWrites' = seedWrites + 1
        ELSE UNCHANGED <<envFile, seedWrites>>
    /\ LoadConfigReturns(configService.mnemonic)
    /\ UNCHANGED processEnv
    /\ WalletUntouched
    /\ AdapterUntouched

\* the key-files a process can start with
InitialContents ==
    {<<>>,
     <<Entry("LOG_LEVEL", "info")>>,
     <<Entry("LOG_LEVEL", "info"), LineBreak>>,
     <<Entry("OLD_COCO_SEED", "void come"), LineBreak>>,
     <<Entry("COCO_SEED", "zoo wrong"), LineBreak>>,
     <<Entry("LOG_LEVEL", "info"), LineBreak, Entry("COCO_SEED", "zoo wrong")>>}

\* a constructed ConfigService in a process with any environment and file
ConfigInit ==
    /\ toolCall = NoToolCall
    /\ envFile \in {NoFile} \cup {[exists |-> TRUE, content |-> c] :
                                    c \in InitialContents}
    /\ processEnv \in {Undefined, "", "zoo wrong"}
    /\ configService = ConfigIdle(NullValue)
    /\ seedWrites = 0
    /\ resolvedSeeds = <<>>
    /\ ServicesInit

-----------------------------------------------------------------------------
(* EventService: the engine's event stream, subscribe and waitForEvent *)

\* the event names setupEventListeners registers a listener for, in order
EngineEventNames ==
    <<"mint:added", "mint:updated", "counter:updated", "proofs:saved",
      "proofs:state-changed", "proofs:deleted", "proofs:wiped",
      "mint-quote:state-changed", "mint-quote:created", "mint-quote:added",
      "mint-quote:requeue", "mint-quote:redeemed", "melt-quote:created",
      "melt-quote:state-changed", "melt-quote:paid", "send:created",
      "receive:created", "history:updated">>

EngineEvents == {EngineEventNames[i] : i \in 1..Len(EngineEventNames)}

\* the payloads an event carries
Payloads == {"payload 1", "payload 2"}

\* waitForEvent's optional predicate: absent, or accepting some payloads
NoPredicate == [kind |-> "none"]

Predicate(accepted) == [kind |-> "predicate", accepts |-> accepted]

\* line 151: !predicate || predicate(payload)
Accepts(predicate, payload) ==
    predicate.kind = "none" \/ payload \in predicate.accepts

\* a callback registered by subscribe
Callback(eventName) ==
    [kind |-> "callback", event |-> eventName, predicate |-> NoPredicate,
     status |-> "subscribed", timer |-> FALSE, invocations |-> 0,
     settled |-> 0, value |-> VoidValue]

\* the promise, the timer and the handler of one waitForEvent call
Wait(eventName, predicate) ==
    [kind |-> "wait", event |-> eventName, predicate |-> predicate,
     status |-> "pending", timer |-> TRUE, invocations |-> 0,
     settled |-> 0, value |-> VoidValue]

\* the rejection of line 148
TimeoutError(eventName) ==
    [kind |-> "error", message |-> "Timeout waiting for event: " \o eventName]

\* the handler of lines 150-156, run on one payload
waitHandler(w, payload) ==
    IF Accepts(w.predicate, payload)
    THEN [w EXCEPT !.timer = FALSE, !.status = "resolved",
                   !.settled = w.settled + 1,
                   !.invocations = w.invocations + 1,
                   !.value = [kind |-> "payload", payload |-> payload]]
    ELSE [w EXCEPT !.invocations = w.invocations + 1]

\* a subscribed callback run on one payload
callbackInvoked(c, payload) ==
    [c EXCEPT !.invocations = c.invocations + 1,
              !.value = [kind |-> "payload", payload |-> payload]]

ObserverOnly == UNCHANGED <<lifecycleVars, storeVars, lastOp, prevOp, hostVars,
                            engineVars>>

\* EventService.subscribe (lines 131-134)
Subscribe(eventName) ==
    /\ Len(subscriptions) < MaxListeners
    /\ subscriptions' = Append(subscriptions, Callback(eventName))
    /\ emitter' = emitter \cup {Len(subscriptions) + 1}
    /\ UNCHANGED eventLog
    /\ ObserverOnly

\* the unsubscribe handle subscribe returned (line 133)
Unsubscribe(id) ==
    /\ id \in DOMAIN subscriptions
    /\ subscriptions[id].kind = "callback"
    /\ subscriptions[id].status = "subscribed"
    /\ subscriptions' = [subscriptions EXCEPT ![id].status = "unsubscribed"]
    /\ emitter' = emitter \ {id}
    /\ UNCHANGED eventLog
    /\ ObserverOnly

\* EventService.waitForEvent (lines 139-160) up to the return of the promise
WaitForEvent(eventName, predicate) ==
    /\ Len(subscriptions) < MaxListeners
    /\ subscriptions' = Append(subscriptions, Wait(eventName, predicate))
    /\ emitter' = emitter \cup {Len(subscriptions) + 1}
    /\ UNCHANGED eventLog
    /\ ObserverOnly

\* a timer that fires without removing the handler
WaitTimeoutKeepsListener(id) ==
    /\ id \in DOMAIN subscriptions
    /\ subscriptions[id].kind = "wait"
    /\ subscriptions[id].timer
    /\ subscriptions' =
          [subscriptions EXCEPT
              ![id].timer = FALSE,
              ![id].status = "rejected",
              ![id].settled = subscriptions[id].settled + 1,
              ![id].value = TimeoutError(subscriptions[id].event)]
    /\ UNCHANGED emitter
    /\ UNCHANGED eventLog
    /\ ObserverOnly

\* the timer of lines 146-149 fires
WaitTimeout(id) ==
    /\ id \in DOMAIN subscriptions
    /\ subscriptions[id].kind = "wait"
    /\ subscriptions[id].timer
    /\ subscriptions' =
          [subscriptions EXCEPT
              ![id].timer = FALSE,
              ![id].status = "rejected",
              ![id].settled = subscriptions[id].settled + 1,
              ![id].value = TimeoutError(subscriptions[id].event)]
    /\ emitter' = emitter \ {id}
    /\ UNCHANGED eventLog
    /\ ObserverOnly

LogLine(e, eventName, payload) ==
    [kind |-> "line", engine |-> e, event |-> eventName, payload |-> payload]

\* logEvent (lines 121-126): one more line on the console
logEvent(log, line) == [count |-> log.count + 1, last |-> line]

\* a listener that also writes the quote state it is told about
EngineEventStoresState(e, eventName, payload) ==
    /\ e \in listening
    /\ e \in engines
    /\ eventName \in EngineEvents
    /\ eventLog.count < MaxEvents
    /\ eventLog' = logEvent(eventLog, LogLine(e, eventName, payload))
    /\ mintQuotes' = [k \in DOMAIN mintQuotes |->
                         [mintQuotes[k] EXCEPT !.state = "PAID"]]
    /\ UNCHANGED <<emitter, subscriptions>>
    /\ UNCHANGED <<lifecycleVars, mints, proofs, meltQuotes, lastOp, prevOp,
                   hostVars, engineVars>>

\* engine e emits an event: the listener setupEventListeners registered for
\* that name (lines 39-115) runs logEvent (lines 121-126)
EngineEvent(e, eventName, payload) ==
    /\ e \in listening
    /\ e \in engines
    /\ eventName \in EngineEvents
    /\ eventLog.count < MaxEvents
    /\ eventLog' = logEvent(eventLog, LogLine(e, eventName, payload))
    /\ UNCHANGED <<emitter, subscriptions>>
    /\ ObserverOnly

-----------------------------------------------------------------------------
(* The tool handlers, run against the wallet and the engine *)

Registrations == {"inline", "factory"}

\* a call a handler makes on the engine, with its arguments
EngineCall(name, url, arg) == name \o "(" \o url \o ", " \o arg \o ")"

\* the plain Error of the handlers' own guard (lines 32-34 and 55-57)
HandlerNotInitialized == "Wallet service not initialized"

\* the message of an error, by its code
ErrorMessage(code) ==
    CASE code = "NO_TRUSTED_MINTS" -> "No trusted mints available"
      [] code = "WALLET_NOT_INITIALIZED" -> "Wallet service not initialized"
      [] code = "SERVICE_NOT_INITIALIZED" ->
            "Quote service dependencies not initialized: repositories"
      [] code = withServiceError("send tokens") -> "Failed to send tokens"
      [] code = withServiceError("check quote status") ->
            "Failed to check quote status"
      [] OTHER -> "Failed"

\* the value a failed handler throws
ThrownBy(status) ==
    IF status \in {EngineError, HandlerNotInitialized}
    THEN NewError(status)
    ELSE Thrown(TRUE, TRUE, status, ErrorMessage(status))

\* the JavaScript value a handler returns
ToJ(value) ==
    CASE value.kind \in {"mintQuote", "meltQuote"} ->
            JObj(<<"quote", "mintUrl", "amount", "state">>,
                 <<JStr(value.quote), JStr(value.mintUrl), JNum(value.amount),
                   JStr(value.state)>>)
      [] value.kind = "sent" ->
            JObj(<<"token", "amount", "mintUrl">>,
                 <<JStr(value.token), JNum(value.amount), JStr(value.mintUrl)>>)
      [] value.kind = "null" -> JNull
      [] OTHER -> JUndefined

HandlerOutcome(o) ==
    IF o.status = "ok" THEN Returned(ToJ(o.value)) ELSE Threw(ThrownBy(o.status))

\* the handler settles as o and the registered callback turns that into the
\* response of the tool
ToolStep(registration, tool, o) ==
    /\ lastOp' = o
    /\ prevOp' = Remember(lastOp)
    /\ toolCall' =
          [registration |-> registration, tool |-> tool,
           outcome |-> HandlerOutcome(o),
           response |-> IF registration = "inline"
                        THEN InlineCallback(tool, HandlerOutcome(o))
                        ELSE FactoryCallback(tool, HandlerOutcome(o))]
    /\ ConfigUntouched
    /\ UNCHANGED <<lifecycleVars, eventVars, engineVars>>

\* mintUrl || (await context.walletService.getDefaultMint())
targetMintUrl(mintUrl, fault) ==
    IF Truthy(mintUrl)
    THEN [status |-> "ok", url |-> mintUrl, calls |-> <<>>]
    ELSE IF ~validateServiceInitialized(manager)
    THEN [status |-> NotInitialized, url |-> Undefined, calls |-> <<>>]
    ELSE LET r == getDefaultMintUrl(mints, fault) IN
         [status |-> r.status, url |-> r.url,
          calls |-> <<"mint.getAllTrustedMints">>]

ToolArg(registration, input, threw) ==
    [kind |-> "tool", registration |-> registration, input |-> input,
     threw |-> threw]

\* the handler creating the quote at the last trusted mint
handleMakeInvoiceAtLastMint(registration, amount, mintUrl, id, fault) ==
    LET failed(status, calls, threw) ==
            [op |-> Op("make_invoice", mintUrl,
                       ToolArg(registration, amount, threw), status, calls,
                       VoidValue),
             mintQuotes |-> mintQuotes]
    IN
    IF manager = NoHandle
    THEN failed(HandlerNotInitialized, <<>>, FALSE)
    ELSE LET t == IF Truthy(mintUrl) \/ ~validateServiceInitialized(manager)
                  THEN targetMintUrl(mintUrl, fault = 1)
                  ELSE LET r == getDefaultMintUrlLast(mints, fault = 1) IN
                       [status |-> r.status, url |-> r.url,
                        calls |-> <<"mint.getAllTrustedMints">>]
         IN
         IF t.status # "ok"
         THEN failed(t.status, t.calls, t.status = EngineError)
         ELSE LET calls == Append(t.calls,
                              EngineCall("quotes.createMintQuote", t.url,
                                         ToString(amount)))
              IN
              IF \/ ~CallOk(manager, fault = 2)
                 \/ ~IsTrusted(mints, t.url)
                 \/ <<t.url, id>> \in DOMAIN mintQuotes
              THEN failed(EngineError, calls, TRUE)
              ELSE [op |-> Op("make_invoice", mintUrl,
                              ToolArg(registration, amount, FALSE), "ok", calls,
                              MintQuoteRecord(t.url, id, amount, "UNPAID")),
                    mintQuotes |-> Put(mintQuotes, <<t.url, id>>,
                                       MintQuoteRecord(t.url, id, amount,
                                                       "UNPAID"))]

\* handleMakeInvoice (lines 48-65, and 912-933): the call it settles as and
\* the mint-quote table the engine leaves; fault = 1: getAllTrustedMints
\* throws, fault = 2: createMintQuote throws
handleMakeInvoice(registration, amount, mintUrl, id, fault) ==
    LET failed(status, calls, threw) ==
            [op |-> Op("make_invoice", mintUrl,
                       ToolArg(registration, amount, threw), status, calls,
                       VoidValue),
             mintQuotes |-> mintQuotes]
    IN
    IF manager = NoHandle
    THEN failed(HandlerNotInitialized, <<>>, FALSE)
    ELSE LET t == targetMintUrl(mintUrl, fault = 1) IN
         IF t.status # "ok"
         THEN failed(t.status, t.calls, t.status = EngineError)
         ELSE LET calls == Append(t.calls,
                              EngineCall("quotes.createMintQuote", t.url,
                                         ToString(amount)))
              IN
              IF \/ ~CallOk(manager, fault = 2)
                 \/ ~IsTrusted(mints, t.url)
                 \/ <<t.url, id>> \in DOMAIN mintQuotes
              THEN failed(EngineError, calls, TRUE)
              ELSE [op |-> Op("make_invoice", mintUrl,
                              ToolArg(registration, amount, FALSE), "ok", calls,
                              MintQuoteRecord(t.url, id, amount, "UNPAID")),
                    mintQuotes |-> Put(mintQuotes, <<t.url, id>>,
                                       MintQuoteRecord(t.url, id, amount,
                                                       "UNPAID"))]

\* the make_invoice tool
MakeInvoice(registration, amount, mintUrl) ==
    /\ initPc = "idle"
    /\ QuoteCount < MaxQuotes
    /\ \E fault \in 0..2, id \in QuoteIds :
        LET r == handleMakeInvoice(registration, amount, mintUrl, id, fault) IN
        /\ mintQuotes' = r.mintQuotes
        /\ ToolStep(registration, "make_invoice", r.op)
    /\ UNCHANGED <<mints, proofs, meltQuotes>>

\* the handler paying again when the payment failed
handlePayInvoiceRetries(registration, amount, mintUrl, id, fault) ==
    LET failed(status, calls, threw, quotes) ==
            [op |-> Op("pay_invoice", mintUrl,
                       ToolArg(registration, amount, threw), status, calls,
                       VoidValue),
             meltQuotes |-> quotes, proofs |-> proofs]
    IN
    IF manager = NoHandle
    THEN failed(HandlerNotInitialized, <<>>, FALSE, meltQuotes)
    ELSE LET t == targetMintUrl(mintUrl, fault = 1) IN
         IF t.status # "ok"
         THEN failed(t.status, t.calls, t.status = EngineError, meltQuotes)
         ELSE LET created == Append(t.calls,
                                EngineCall("quotes.createMeltQuote", t.url,
                                           ToString(amount)))
                  paid == Append(created,
                             EngineCall("quotes.payMeltQuote", t.url, id))
                  meltQuote == MeltQuoteRecord(t.url, id, amount, "UNPAID")
                  quotes == Put(meltQuotes, <<t.url, id>>, meltQuote)
              IN
              IF \/ ~CallOk(manager, fault = 2)
                 \/ ~IsTrusted(mints, t.url)
                 \/ <<t.url, id>> \in DOMAIN meltQuotes
              THEN failed(EngineError, created, TRUE, meltQuotes)
              ELSE IF \/ ~CallOk(manager, fault = 3)
                      \/ BalanceOf(proofs, t.url) < amount
              THEN failed(EngineError,
                          Append(paid, EngineCall("quotes.payMeltQuote",
                                                  t.url, id)),
                          TRUE, quotes)
              ELSE [op |-> Op("pay_invoice", mintUrl,
                              ToolArg(registration, amount, FALSE), "ok", paid,
                              meltQuote),
                    meltQuotes |-> [quotes EXCEPT ![<<t.url, id>>].state = "PAID"],
                    proofs |-> SetBalance(proofs, t.url,
                                          BalanceOf(proofs, t.url) - amount)]

\* handlePayInvoice (lines 25-46, and 885-910): the call it settles as, and
\* the melt-quote table and the balances the engine leaves; the invoice
\* fixes the amount; fault = 1: getAllTrustedMints throws, 2: createMeltQuote
\* throws, 3: payMeltQuote throws
handlePayInvoice(registration, amount, mintUrl, id, fault) ==
    LET failed(status, calls, threw, quotes) ==
            [op |-> Op("pay_invoice", mintUrl,
                       ToolArg(registration, amount, threw), status, calls,
                       VoidValue),
             meltQuotes |-> quotes, proofs |-> proofs]
    IN
    IF manager = NoHandle
    THEN failed(HandlerNotInitialized, <<>>, FALSE, meltQuotes)
    ELSE LET t == targetMintUrl(mintUrl, fault = 1) IN
         IF t.status # "ok"
         THEN failed(t.status, t.calls, t.status = EngineError, meltQuotes)
         ELSE LET created == Append(t.calls,
                                EngineCall("quotes.createMeltQuote", t.url,
                                           ToString(amount)))
                  paid == Append(created,
                             EngineCall("quotes.payMeltQuote", t.url, id))
                  meltQuote == MeltQuoteRecord(t.url, id, amount, "UNPAID")
                  quotes == Put(meltQuotes, <<t.url, id>>, meltQuote)
              IN
              IF \/ ~CallOk(manager, fault = 2)
                 \/ ~IsTrusted(mints, t.url)
                 \/ <<t.url, id>> \in DOMAIN meltQuotes
              THEN failed(EngineError, created, TRUE, meltQuotes)
              ELSE IF \/ ~CallOk(manager, fault = 3)
                      \/ BalanceOf(proofs, t.url) < amount
              THEN failed(EngineError, paid, TRUE, quotes)
              ELSE [op |-> Op("pay_invoice", mintUrl,
                              ToolArg(registration, amount, FALSE), "ok", paid,
                              meltQuote),
                    meltQuotes |-> [quotes EXCEPT ![<<t.url, id>>].state = "PAID"],
                    proofs |-> SetBalance(proofs, t.url,
                                          BalanceOf(proofs, t.url) - amount)]

\* the pay_invoice tool
PayInvoice(registration, amount, mintUrl) ==
    /\ initPc = "idle"
    /\ QuoteCount < MaxQuotes
    /\ \E fault \in 0..3, id \in QuoteIds :
        LET r == handlePayInvoice(registration, amount, mintUrl, id, fault) IN
        /\ meltQuotes' = r.meltQuotes
        /\ proofs' = r.proofs
        /\ ToolStep(registration, "pay_invoice", r.op)
    /\ UNCHANGED <<mints, mintQuotes>>

\* the token getEncodedToken builds from what the engine sent
getEncodedToken(url, amount) == "cashuB:" \o url \o ":" \o ToString(amount)

\* handleSendCashu (lines 158-172, and 1024-1042) with the sendTokens call it
\* makes; fault = 1: getAllTrustedMints throws, fault = 2: wallet.send throws
handleSendCashu(registration, amount, mintUrl, fault) ==
    LET failed(status, calls, threw) ==
            [op |-> Op("send_cashu", mintUrl,
                       ToolArg(registration, amount, threw), status, calls,
                       VoidValue),
             proofs |-> proofs]
        t == targetMintUrl(mintUrl, fault = 1)
    IN
    IF t.status # "ok"
    THEN failed(t.status, t.calls, t.status = EngineError)
    ELSE IF ~validateServiceInitialized(manager)
    THEN failed(NotInitialized, t.calls, FALSE)
    ELSE LET calls == Append(t.calls,
                         EngineCall("wallet.send", t.url, ToString(amount)))
         IN
         IF ~CallOk(manager, fault = 2) \/ BalanceOf(proofs, t.url) < amount
         THEN failed(withServiceError("send tokens"), calls, TRUE)
         ELSE [op |-> Op("send_cashu", mintUrl,
                         ToolArg(registration, amount, FALSE), "ok", calls,
                         [kind |-> "sent",
                          token |-> getEncodedToken(t.url, amount),
                          amount |-> amount, mintUrl |-> t.url]),
               proofs |-> SetBalance(proofs, t.url,
                                     BalanceOf(proofs, t.url) - amount)]

\* the send_cashu tool
SendCashu(registration, amount, mintUrl) ==
    /\ initPc = "idle"
    /\ \E fault \in 0..2 :
        LET r == handleSendCashu(registration, amount, mintUrl, fault) IN
        /\ proofs' = r.proofs
        /\ ToolStep(registration, "send_cashu", r.op)
    /\ UNCHANGED <<mints, mintQuotes, meltQuotes>>

\* WalletService.checkQuoteStatus, which handleLookupQuote calls: hands the
\* lookup to the QuoteService
walletCheckQuoteStatus(quoteId, mintUrl, fault) ==
    checkQuoteStatus(quoteId, mintUrl, fault)

\* the arguments the lookup_quote callback receives: its input schema
\* (lines 308-310 and 736-738) declares quoteId only
lookupQuoteParams(quoteId, mintUrl) ==
    [quoteId |-> quoteId, mintUrl |-> Undefined]

\* handleLookupQuote: the function of lines 67-82 for the inline
\* registration, the method of lines 935-948 for the factory registration;
\* fault = 1: getMintQuote throws, 2: getMeltQuote throws,
\* 3: getAllTrustedMints throws
handleLookupQuote(registration, params, fault) ==
    IF registration = "inline"
    THEN LET t == targetMintUrl(params.mintUrl, fault = 3) IN
         IF t.status # "ok"
         THEN Op("lookup_quote", params.mintUrl,
                 ToolArg(registration, params.quoteId, t.status = EngineError),
                 t.status, t.calls, VoidValue)
         ELSE LET r == walletCheckQuoteStatus(params.quoteId, t.url, fault) IN
              [r EXCEPT !.op = "lookup_quote", !.url = params.mintUrl,
                        !.arg = ToolArg(registration, params.quoteId,
                                        r.arg.threw),
                        !.calls = t.calls \o r.calls]
    ELSE LET r == checkQuoteStatus(params.quoteId, Undefined, fault) IN
         [r EXCEPT !.op = "lookup_quote", !.url = params.mintUrl,
                   !.arg = ToolArg(registration, params.quoteId, r.arg.threw)]

\* the lookup_quote tool, called with a quote id and, optionally, a mint
\* URL; the call is recorded with the URL the caller gave
LookupQuote(registration, quoteId, mintUrl) ==
    /\ initPc = "idle"
    /\ \E fault \in 0..3 :
        LET o == handleLookupQuote(registration,
                                   lookupQuoteParams(quoteId, mintUrl), fault)
        IN ToolStep(registration, "lookup_quote", [o EXCEPT !.url = mintUrl])
    /\ UNCHANGED storeVars

-----------------------------------------------------------------------------
(* TransactionService and the engine's history *)

HistoryEntry(id, type, url, amount) ==
    [kind |-> "historyEntry", id |-> id, type |-> type, mintUrl |-> url,
     amount |-> amount]

\* the engine records a completed mint, melt, send or receive
EngineAppendsHistory(type, url, amount) ==
    /\ \E e \in engines : e \in openDbs
    /\ Len(history) < MaxHistory
    /\ history' = Append(history,
                         HistoryEntry(Len(history) + 1, type, url, amount))
    /\ lastOp' = Op("engine:history:updated", url,
                    [kind |-> "history", type |-> type], "ok", <<>>, VoidValue)
    /\ prevOp' = Remember(lastOp)
    /\ UNCHANGED <<lifecycleVars, storeVars, hostVars, eventVars,
                   transactionService, derivations, inflight, registry>>

\* CashuMcpServer.initializeWallet lines 1051-1055, after
\* walletService.initialize has returned: TransactionService.initialize
TransactionServiceInitialize ==
    /\ initPc = "idle"
    /\ initOk
    /\ manager # NoHandle
    /\ transactionService' = manager
    /\ lastOp' = Op("transactionService.initialize", Undefined, VoidValue, "ok",
                    <<>>, VoidValue)
    /\ prevOp' = Remember(lastOp)
    /\ UNCHANGED <<lifecycleVars, storeVars, hostVars, eventVars, history,
                   derivations, inflight, registry>>

\* line 23: filters.limit || 100
DefaultLimit == 100

\* line 24: filters.offset || 0
DefaultOffset == 0

\* a filter that is left out, or zero, gives way to the default
OrDefault(n, default) == IF n = 0 THEN default ELSE n

Min(a, b) == IF a < b THEN a ELSE b

\* manager.history.getPaginatedHistory(offset, limit)
getPaginatedHistory(h, offset, limit) ==
    SubSeq(h, offset + 1, Min(offset + limit, Len(h)))

\* TransactionService.listTransactions (lines 12-36): the call it settles as
listTransactions(limit, offset, fault) ==
    LET arg == [kind |-> "filters", limit |-> limit, offset |-> offset,
                threw |-> fault]
    IN
    IF ~validateServiceInitialized(transactionService)
    THEN Op("listTransactions", Undefined, arg, NotInitialized, <<>>, VoidValue)
    ELSE IF ~CallOk(transactionService, fault)
    THEN Op("listTransactions", Undefined, [arg EXCEPT !.threw = TRUE],
            withServiceError("list transactions"),
            <<"history.getPaginatedHistory">>, VoidValue)
    ELSE Op("listTransactions", Undefined, arg, "ok",
            <<"history.getPaginatedHistory">>,
            [kind |-> "history",
             entries |-> getPaginatedHistory(history,
                                             OrDefault(offset, DefaultOffset),
                                             OrDefault(limit, DefaultLimit))])

\* a listing that removes from the history the entries it returns
ListTransactionsConsumes(limit, offset) ==
    /\ initPc = "idle"
    /\ \E fault \in BOOLEAN :
        LET o == listTransactions(limit, offset, fault) IN
        /\ lastOp' = o
        /\ prevOp' = Remember(lastOp)
        /\ history' = IF o.status = "ok"
                      THEN SelectSeq(history,
                              LAMBDA h : \A i \in DOMAIN o.value.entries :
                                            o.value.entries[i] # h)
                      ELSE history
    /\ UNCHANGED <<lifecycleVars, storeVars, hostVars, eventVars,
                   transactionService, derivations, inflight, registry>>

ListTransactions(limit, offset) ==
    /\ initPc = "idle"
    /\ \E fault \in BOOLEAN :
        LET o == listTransactions(limit, offset, fault) IN
        /\ lastOp' = o
        /\ prevOp' = Remember(lastOp)
        /\ history' = history
    /\ UNCHANGED <<lifecycleVars, storeVars, hostVars, eventVars,
                   transactionService, derivations, inflight, registry>>

-----------------------------------------------------------------------------
(* The seedGetter handed to initializeCoco (WalletService.initialize,        *)
(* lines 60-71)                                                            *)

\* bip39.mnemonicToSeedSync(mnemonic), no passphrase: the PBKDF2 output is a
\* function of the mnemonic alone
mnemonicToSeedSync(mnemonic) == "seed bytes of " \o mnemonic

\* the engines that hold a seedGetter: the one initializeCoco is building
\* (line 67) and the ones it has returned
SeedGetterHolders ==
    engines \cup (IF initPc = "coco" THEN {repositories} ELSE {})

\* config.seed as the closure of the initialize call numbered e reads it: the
\* configuration of one call names one mnemonic
ConfiguredSeeds(e) ==
    IF \E i \in DOMAIN derivations : derivations[i].engine = e
    THEN {derivations[i].mnemonic :
            i \in {j \in DOMAIN derivations : derivations[j].engine = e}}
    ELSE {MnemonicNames[1], MnemonicNames[2]}

Derivation(e, mnemonic) ==
    [kind |-> "derivation", engine |-> e, mnemonic |-> mnemonic,
     bytes |-> mnemonicToSeedSync(mnemonic)]

SeedRequest(e, d) ==
    Op("engine:seedGetter", Undefined, [kind |-> "seedRequest", engine |-> e],
       "ok", <<"bip39.mnemonicToSeedSync">>, d.bytes)

\* the seed derived as soon as the closure is built, before initializeCoco
\* is called with it
SeedDerivedEagerly(e) ==
    /\ e \in SeedGetterHolders \cup
             (IF initPc = "repoInit" THEN {repositories} ELSE {})
    /\ Len(derivations) < MaxDerivations
    /\ \E mnemonic \in ConfiguredSeeds(e) :
        LET d == Derivation(e, mnemonic) IN
        /\ derivations' = Append(derivations, d)
        /\ lastOp' = IF e \in SeedGetterHolders THEN SeedRequest(e, d)
                     ELSE InitPending("seed derived")
    /\ prevOp' = Remember(lastOp)
    /\ UNCHANGED <<lifecycleVars, storeVars, hostVars, eventVars,
                   transactionService, history, inflight, registry>>

\* the engine calls the seedGetter it was given (lines 61-63)
EngineRequestsSeed(e) ==
    /\ e \in SeedGetterHolders
    /\ Len(derivations) < MaxDerivations
    /\ \E mnemonic \in ConfiguredSeeds(e) :
        LET d == Derivation(e, mnemonic) IN
        /\ derivations' = Append(derivations, d)
        /\ lastOp' = SeedRequest(e, d)
    /\ prevOp' = Remember(lastOp)
    /\ UNCHANGED <<lifecycleVars, storeVars, hostVars, eventVars,
                   transactionService, history, inflight, registry>>

-----------------------------------------------------------------------------
(* Calls followed through their await points *)

\* the first slot that holds no call
FreeSlot == CHOOSE slot \in 1..MaxCalls :
                /\ inflight[slot].pc = "idle"
                /\ \A other \in 1..(slot - 1) : inflight[other].pc # "idle"

HasFreeSlot == \E slot \in 1..MaxCalls : inflight[slot].pc = "idle"

\* the call of a slot settles: the promise resolves or rejects
Settle(c, status, value, threw) ==
    [c EXCEPT !.pc = "done", !.status = status, !.value = value,
              !.threw = threw]

\* a step of a call in flight touches the slot and nothing but what the
\* step itself names
CallStep(slot, c, calls) ==
    /\ inflight' = [inflight EXCEPT ![slot] = c]
    /\ lastOp' = Op(c.op, c.url, [kind |-> "call", slot |-> slot, pc |-> c.pc],
                    c.status, calls, c.value)
    /\ prevOp' = Remember(lastOp)
    /\ UNCHANGED <<hostVars, eventVars, transactionService, history,
                   derivations, registry>>

\* what the precedence rule of checkQuoteStatus gives on the quotes as stored
QuoteAt(mintUrl, quoteId) ==
    IF <<mintUrl, quoteId>> \in DOMAIN mintQuotes
    THEN mintQuotes[<<mintUrl, quoteId>>]
    ELSE Lookup(meltQuotes, <<mintUrl, quoteId>>)

\* QuoteService.checkQuoteStatus lines 53-65: validateDependencies, then the
\* call of getMintQuote through this.repositories, up to its await
CheckQuoteStatusStarts(quoteId, mintUrl) ==
    /\ HasFreeSlot
    /\ LET c == CallSlot("checkQuoteStatus", "mintLookup", mintUrl,
                         [kind |-> "check", quoteId |-> quoteId],
                         quoteService.repositories,
                         QuoteAt(mintUrl, quoteId), "pending", VoidValue,
                         "none")
       IN IF ~validateDependencies(quoteService.repositories)
          THEN CallStep(FreeSlot,
                        Settle(c, DependenciesMissing, VoidValue, "none"), <<>>)
          ELSE CallStep(FreeSlot, c, <<"mintQuoteRepository.getMintQuote">>)
    /\ UNCHANGED <<lifecycleVars, storeVars>>

\* lines 61-73: getMintQuote settles; a quote found is returned, otherwise
\* this.repositories is read again for the call of getMeltQuote
MintLookupSettles(slot) ==
    /\ inflight[slot].op = "checkQuoteStatus"
    /\ inflight[slot].pc = "mintLookup"
    /\ LET c == inflight[slot]
           mintQuote == Lookup(mintQuotes, <<c.url, c.arg.quoteId>>)
       IN \E fault \in BOOLEAN :
          IF ~CallOk(c.handle, fault)
          THEN CallStep(slot,
                        Settle(c, withServiceError("check quote status"),
                               VoidValue, "storage"), <<>>)
          ELSE IF mintQuote # NullValue
          THEN CallStep(slot, Settle(c, "ok", mintQuote, "none"), <<>>)
          ELSE IF quoteService.repositories = NoHandle
          THEN CallStep(slot,
                        Settle(c, withServiceError("check quote status"),
                               VoidValue, "TypeError"), <<>>)
          ELSE CallStep(slot,
                        [c EXCEPT !.pc = "meltLookup",
                                  !.handle = quoteService.repositories],
                        <<"meltQuoteRepository.getMeltQuote">>)
    /\ UNCHANGED <<lifecycleVars, storeVars>>

\* lines 69-75: getMeltQuote settles and its result is returned
MeltLookupSettles(slot) ==
    /\ inflight[slot].op = "checkQuoteStatus"
    /\ inflight[slot].pc = "meltLookup"
    /\ LET c == inflight[slot]
           meltQuote == Lookup(meltQuotes, <<c.url, c.arg.quoteId>>)
       IN \E fault \in BOOLEAN :
          IF ~CallOk(c.handle, fault)
          THEN CallStep(slot,
                        Settle(c, withServiceError("check quote status"),
                               VoidValue, "storage"), <<>>)
          ELSE CallStep(slot, Settle(c, "ok", meltQuote, "none"), <<>>)
    /\ UNCHANGED <<lifecycleVars, storeVars>>

\* the operation name withServiceError is given by trustMint / untrustMint
FlipServiceName(opName) ==
    IF opName = "trustMint" THEN "trust mint" ELSE "untrust mint"

\* trustMint lines 316-328 / untrustMint lines 347-359: the two guards, then
\* the call of manager.mint.trustMint / untrustMint, up to its await
FlipStarts(opName, url, flag) ==
    /\ initPc = "idle"
    /\ HasFreeSlot
    /\ LET c == CallSlot(opName, "flip", url,
                         [kind |-> "trust", flag |-> flag, flipped |-> FALSE],
                         manager, VoidValue, "pending", VoidValue, "none")
       IN IF ~validateServiceInitialized(manager)
          THEN CallStep(FreeSlot, Settle(c, NotInitialized, VoidValue, "none"),
                        <<>>)
          ELSE IF ~validateDependencies(repositories)
          THEN CallStep(FreeSlot,
                        Settle(c, DependenciesMissing, VoidValue, "none"), <<>>)
          ELSE CallStep(FreeSlot, c, <<"mint." \o opName>>)
    /\ UNCHANGED <<lifecycleVars, storeVars>>

\* lines 328-333 / 359-364: the engine call settles; when it has flipped the
\* flag, getMintByUrl is called through this.repositories
EngineFlipSettles(slot) ==
    /\ inflight[slot].op \in {"trustMint", "untrustMint"}
    /\ inflight[slot].pc = "flip"
    /\ LET c == inflight[slot] IN
       \E fault \in BOOLEAN :
          IF ~CallOk(c.handle, fault) \/ c.url \notin KnownUrls(mints)
          THEN /\ CallStep(slot,
                           Settle(c, withServiceError(FlipServiceName(c.op)),
                                  VoidValue, "engine"), <<>>)
               /\ UNCHANGED mints
          ELSE /\ mints' = SetTrusted(mints, c.url, c.arg.flag)
               /\ CallStep(slot,
                           [c EXCEPT !.pc = "readBack",
                                     !.handle = repositories,
                                     !.arg.flipped = TRUE],
                           <<"mintRepository.getMintByUrl">>)
    /\ UNCHANGED <<lifecycleVars, proofs, mintQuotes, meltQuotes>>

\* lines 331-340 / 362-371: getMintByUrl settles and the row it gave is
\* turned into the MintInfo that is returned
ReadBackSettles(slot) ==
    /\ inflight[slot].op \in {"trustMint", "untrustMint"}
    /\ inflight[slot].pc = "readBack"
    /\ LET c == inflight[slot] IN
       \E fault \in BOOLEAN :
          IF ~CallOk(c.handle, fault)
          THEN CallStep(slot,
                        Settle(c, withServiceError(FlipServiceName(c.op)),
                               VoidValue, "storage"), <<>>)
          ELSE IF c.url \notin KnownUrls(mints)
          THEN CallStep(slot,
                        Settle(c, withServiceError(FlipServiceName(c.op)),
                               VoidValue, "TypeError"), <<>>)
          ELSE CallStep(slot,
                        Settle(c, "ok", ToMintInfo(MintAt(mints, c.url)),
                               "none"), <<>>)
    /\ UNCHANGED <<lifecycleVars, storeVars>>

-----------------------------------------------------------------------------
(* ServiceRegistry (types/wallet-api.ts lines 400-495) *)

ServiceNames == <<"wallet", "quotes", "events", "transactions">>

Services == {ServiceNames[i] : i \in 1..NumServices}

RegistryUntouched ==
    UNCHANGED <<lifecycleVars, storeVars, lastOp, prevOp, hostVars, eventVars,
                transactionService, history, derivations, inflight>>

\* register (lines 407-412): a name already present throws, a new one is
\* added at the end of the Map
Register(name) ==
    /\ Len(registry.services) < NumServices
    /\ registry' = IF \E i \in DOMAIN registry.services :
                         registry.services[i] = name
                   THEN registry
                   ELSE [registry EXCEPT !.services = Append(@, name)]
    /\ RegistryUntouched

\* one entry per initialize or cleanup call the running loop has awaited
Ran(name, ok) == [name |-> name, ok |-> ok]

\* a call of initializeAll or cleanupAll begins
Begin(r, op) ==
    [r EXCEPT !.op = op, !.pc = "idle", !.next = 0, !.log = <<>>,
              !.status = "ok", !.calls = @ + 1,
              !.wasInitialized = r.initialized]

\* the loop of the running call suspends at the await of service i
Await(r, i) == [r EXCEPT !.pc = "running", !.next = i, !.status = "pending"]

\* the running call returns, leaving the flag as given
Return(r, flag) ==
    [r EXCEPT !.pc = "idle", !.status = "ok", !.initialized = flag]

\* the running call re-raises the error of a service
Raise(r) == [r EXCEPT !.pc = "idle", !.status = "failed"]

\* initializeAll lines 428-434: the guard, and the first initialize call
InitializeAllStarts ==
    /\ registry.pc = "idle"
    /\ registry.calls < MaxRegistryCalls
    /\ registry' = IF registry.initialized
                   THEN Begin(registry, "initializeAll")
                   ELSE IF registry.services = <<>>
                   THEN Return(Begin(registry, "initializeAll"), TRUE)
                   ELSE Await(Begin(registry, "initializeAll"), 1)
    /\ RegistryUntouched

\* initializeAll going on to the next service after a failed initialize
InitializeSettlesAndContinues(ok) ==
    /\ registry.op = "initializeAll"
    /\ registry.pc = "running"
    /\ LET r == [registry EXCEPT
                   !.log = Append(@, Ran(registry.services[registry.next], ok))]
       IN registry' = IF r.next = Len(r.services)
                      THEN Return(r, TRUE)
                      ELSE Await(r, r.next + 1)
    /\ RegistryUntouched

\* initializeAll lines 435-446: the awaited initialize settles
InitializeSettles(ok) ==
    /\ registry.op = "initializeAll"
    /\ registry.pc = "running"
    /\ LET r == [registry EXCEPT
                   !.log = Append(@, Ran(registry.services[registry.next], ok))]
       IN registry' = IF ~ok
                      THEN Raise(r)
                      ELSE IF r.next = Len(r.services)
                      THEN Return(r, TRUE)
                      ELSE Await(r, r.next + 1)
    /\ RegistryUntouched

\* cleanupAll lines 485-487: the first cleanup call
CleanupAllStarts ==
    /\ registry.pc = "idle"
    /\ registry.calls < MaxRegistryCalls
    /\ registry' = IF registry.services = <<>>
                   THEN Return(Begin(registry, "cleanupAll"), FALSE)
                   ELSE Await(Begin(registry, "cleanupAll"), 1)
    /\ RegistryUntouched

\* cleanupAll re-raising the error of a failed cleanup
CleanupSettlesAndRaises(ok) ==
    /\ registry.op = "cleanupAll"
    /\ registry.pc = "running"
    /\ LET r == [registry EXCEPT
                   !.log = Append(@, Ran(registry.services[registry.next], ok))]
       IN registry' = IF ~ok
                      THEN Raise(r)
                      ELSE IF r.next = Len(r.services)
                      THEN Return(r, FALSE)
                      ELSE Await(r, r.next + 1)
    /\ RegistryUntouched

\* cleanupAll lines 486-494: the awaited cleanup settles
CleanupSettles(ok) ==
    /\ registry.op = "cleanupAll"
    /\ registry.pc = "running"
    /\ LET r == [registry EXCEPT
                   !.log = Append(@, Ran(registry.services[registry.next], ok))]
       IN registry' = IF r.next = Len(r.services)
                      THEN Return(r, FALSE)
                      ELSE Await(r, r.next + 1)
    /\ RegistryUntouched

-----------------------------------------------------------------------------
(* Specifications *)

TrustInputs == {"true", "false", Undefined}

MintOps(urls) ==
    \/ \E url \in urls, trusted \in TrustInputs : AddMint(url, trusted)
    \/ \E filter \in ListFilters : ListMints(filter)
    \/ \E url \in urls : TrustMint(url)
    \/ \E url \in urls : UntrustMint(url)
    \/ \E url \in urls : RemoveMint(url)
    \/ \E url \in urls \cup {Undefined} : ResolveMintUrl(url)
    \/ GetDefaultMint

TokenOps(urls, amounts) ==
    \/ GetBalance
    \/ \E url \in urls, amount \in amounts : ReceiveTokens(url, amount)
    \/ \E amount \in amounts, url \in urls \cup {Undefined} :
          SendTokens(amount, url)

QuoteOps(urls, amounts) ==
    \/ \E url \in urls, amount \in amounts : CreateMintQuote(url, amount)
    \/ \E url \in urls, amount \in amounts : CreateMeltQuote(url, amount)
    \/ \E url \in urls, id \in QuoteIds : PayMeltQuote(url, id)
    \/ \E url \in urls, id \in QuoteIds : RedeemMintQuote(url, id)
    \/ \E url \in urls, id \in QuoteIds : CheckQuoteStatus(id, url)

EngineSteps ==
    \/ \E url \in MintUrls, id \in QuoteIds : WatcherSeesPayment(url, id)
    \/ \E url \in MintUrls, id \in QuoteIds : ProcessorRedeems(url, id)

\* every operation, every input
Next ==
    \/ Initialize
    \/ Cleanup
    \/ MintOps(MintUrls)
    \/ TokenOps(MintUrls, Amounts)
    \/ QuoteOps(MintUrls, Amounts)
    \/ EngineSteps
    \/ \E tool \in ToolNames, outcome \in HandlerOutcomes :
          FactoryToolCall(tool, outcome) \/ InlineToolCall(tool, outcome)
    \/ LoadConfig
    \/ ReadFileSettles
    \/ WriteFileSettles

Spec == Init /\ [][Next]_vars

\* the wallet after its first initialize has returned normally
InitReady ==
    /\ database = 1
    /\ repositories = 1
    /\ manager = 1
    /\ quoteService = [manager |-> 1, repositories |-> 1,
                       initialized |-> TRUE, readyState |-> TRUE]
    /\ eventService = [manager |-> 1, initialized |-> TRUE, readyState |-> TRUE]
    /\ initPc = "idle"
    /\ dbCount = 1
    /\ openDbs = {1}
    /\ engines = {1}
    /\ watchers = {1} \X AllWatchers
    /\ listening = {1}
    /\ mints = <<>>
    /\ proofs = [u \in {} |-> 0]
    /\ mintQuotes = [k \in {} |-> NullValue]
    /\ meltQuotes = [k \in {} |-> NullValue]
    /\ initOk = TRUE
    /\ lastOp = InitDone
    /\ prevOp = Summary(NoOp)
    /\ HostInit

FirstAmount == {AmountValues[1]}

FirstUrl == {UrlNames[1]}

\* the lifecycle, with two of the operations behind the initialization guard
NextLifecycle ==
    \/ Initialize
    \/ Cleanup
    \/ GetBalance
    \/ \E url \in MintUrls : RemoveMint(url)

SpecLifecycle == Init /\ [][NextLifecycle]_vars

\* mint management and default-mint resolution, on an initialized wallet
NextMints ==
    \/ Cleanup
    \/ MintOps(MintUrls)

SpecMints == InitReady /\ [][NextMints]_vars

\* balances of trusted mints, from a fresh wallet
NextBalance ==
    \/ Initialize
    \/ \E url \in MintUrls : AddMint(url, "true")
    \/ \E url \in MintUrls, amount \in Amounts : ReceiveTokens(url, amount)
    \/ GetBalance

SpecBalance == Init /\ [][NextBalance]_vars

\* trust flags next to balances, on an initialized wallet
NextTrust ==
    \/ \E url \in MintUrls, trusted \in TrustInputs : AddMint(url, trusted)
    \/ \E url \in MintUrls : TrustMint(url)
    \/ \E url \in MintUrls : UntrustMint(url)
    \/ \E url \in MintUrls : RemoveMint(url)
    \/ \E url \in MintUrls, amount \in FirstAmount : ReceiveTokens(url, amount)
    \/ \E filter \in {"all"} : ListMints(filter)

SpecTrust == InitReady /\ [][NextTrust]_vars

\* the two quote tables, on an initialized wallet
NextQuotes ==
    \/ Cleanup
    \/ \E url \in MintUrls : AddMint(url, "true")
    \/ \E url \in MintUrls, amount \in FirstAmount : CreateMintQuote(url, amount)
    \/ \E url \in MintUrls, amount \in FirstAmount : CreateMeltQuote(url, amount)
    \/ \E url \in MintUrls, id \in QuoteIds : WatcherSeesPayment(url, id)
    \/ \E url \in MintUrls, id \in QuoteIds : CheckQuoteStatus(id, url)

SpecQuotes == InitReady /\ [][NextQuotes]_vars

\* resolveMintUrl with every kind of argument, on an initialized wallet
NextResolve ==
    \/ Cleanup
    \/ \E url \in MintUrls, trusted \in TrustInputs : AddMint(url, trusted)
    \/ \E url \in MintUrls : RemoveMint(url)
    \/ \E url \in MintUrls \cup {Undefined, EmptyUrl} : ResolveMintUrl(url)

SpecResolve == InitReady /\ [][NextResolve]_vars

\* the tool adapter over every tool and every handler outcome
NextAdapter ==
    \/ \E tool \in ToolNames, outcome \in HandlerOutcomes :
          FactoryToolCall(tool, outcome)
    \/ \E tool \in ToolNames, outcome \in HandlerOutcomes :
          InlineToolCall(tool, outcome)

SpecAdapter == Init /\ [][NextAdapter]_vars

\* loadConfig calls one after the other
NextConfig ==
    \/ LoadConfig
    \/ ReadFileSettles
    \/ WriteFileSettles

\* a wallet not yet initialized, in a process with any environment and file
InitConfig == WalletInit /\ ConfigInit

SpecConfig == InitConfig /\ [][NextConfig]_vars

TrustedOrNot == {"true", "false"}

\* two mints, so that the default mint is one of several
TwoUrls == {UrlNames[1], UrlNames[2]}

OptionalUrls == TwoUrls \cup {Undefined}

\* lookup_quote next to the calls that create quotes
NextLookup ==
    \/ \E url \in TwoUrls : AddMint(url, "true")
    \/ \E url \in TwoUrls, amount \in FirstAmount : CreateMintQuote(url, amount)
    \/ \E url \in TwoUrls, amount \in FirstAmount : CreateMeltQuote(url, amount)
    \/ \E registration \in Registrations, id \in QuoteIds, url \in OptionalUrls :
          LookupQuote(registration, id, url)

SpecLookup == InitReady /\ [][NextLookup]_vars

\* make_invoice and pay_invoice on a wallet that may hold funds
NextInvoices ==
    \/ Cleanup
    \/ \E url \in TwoUrls : AddMint(url, "true")
    \/ \E url \in FirstUrl, amount \in FirstAmount : ReceiveTokens(url, amount)
    \/ \E registration \in Registrations, amount \in FirstAmount,
          url \in OptionalUrls : MakeInvoice(registration, amount, url)
    \/ \E registration \in Registrations, amount \in FirstAmount,
          url \in OptionalUrls : PayInvoice(registration, amount, url)

SpecInvoices == InitReady /\ [][NextInvoices]_vars

\* the calls that rely on the default mint, on a wallet whose mints may all
\* be untrusted
NextDefaultMint ==
    \/ \E url \in TwoUrls, trusted \in TrustedOrNot : AddMint(url, trusted)
    \/ \E url \in FirstUrl, amount \in FirstAmount : ReceiveTokens(url, amount)
    \/ \E url \in TwoUrls : UntrustMint(url)
    \/ \E amount \in FirstAmount : SendTokens(amount, Undefined)
    \/ \E registration \in Registrations, amount \in FirstAmount :
          SendCashu(registration, amount, Undefined)
    \/ \E registration \in Registrations, amount \in FirstAmount :
          MakeInvoice(registration, amount, Undefined)
    \/ \E registration \in Registrations, id \in QuoteIds :
          LookupQuote(registration, id, Undefined)

SpecDefaultMint == InitReady /\ [][NextDefaultMint]_vars

\* checkQuoteStatus calls suspended at their awaits while cleanup runs
NextCheckInFlight ==
    \/ Cleanup
    \/ \E url \in FirstUrl : AddMint(url, "true")
    \/ \E url \in FirstUrl, amount \in FirstAmount : CreateMintQuote(url, amount)
    \/ \E url \in FirstUrl, amount \in FirstAmount : CreateMeltQuote(url, amount)
    \/ \E url \in FirstUrl, id \in {QuoteIdNames[1]} : CheckQuoteStatusStarts(id, url)
    \/ \E slot \in 1..MaxCalls : MintLookupSettles(slot)
    \/ \E slot \in 1..MaxCalls : MeltLookupSettles(slot)

SpecCheckInFlight == InitReady /\ [][NextCheckInFlight]_vars

\* trustMint and untrustMint calls suspended at their awaits, next to each
\* other and to removeMint
NextTrustInFlight ==
    \/ \E url \in FirstUrl : AddMint(url, "true")
    \/ \E url \in FirstUrl : RemoveMint(url)
    \/ \E url \in FirstUrl : FlipStarts("trustMint", url, TRUE)
    \/ \E url \in FirstUrl : FlipStarts("untrustMint", url, FALSE)
    \/ \E slot \in 1..MaxCalls : EngineFlipSettles(slot)
    \/ \E slot \in 1..MaxCalls : ReadBackSettles(slot)

SpecTrustInFlight == InitReady /\ [][NextTrustInFlight]_vars

\* the ServiceRegistry with services whose initialize and cleanup may fail
NextRegistry ==
    \/ \E name \in Services : Register(name)
    \/ InitializeAllStarts
    \/ \E ok \in BOOLEAN : InitializeSettles(ok)
    \/ CleanupAllStarts
    \/ \E ok \in BOOLEAN : CleanupSettles(ok)

SpecRegistry == Init /\ [][NextRegistry]_vars

\* the lifecycle next to the engine's requests for the seed
NextSeed ==
    \/ Initialize
    \/ Cleanup
    \/ \E e \in 1..MaxInits : EngineRequestsSeed(e)

SpecSeed == Init /\ [][NextSeed]_vars

\* the reading operations and mint management next to the engine's own
\* writes to the quotes and to the history
NextRecords ==
    \/ TransactionServiceInitialize
    \/ \E url \in FirstUrl : AddMint(url, "true")
    \/ \E url \in FirstUrl : UntrustMint(url)
    \/ \E url \in FirstUrl : TrustMint(url)
    \/ \E url \in FirstUrl : RemoveMint(url)
    \/ \E filter \in {"all"} : ListMints(filter)
    \/ GetBalance
    \/ \E url \in FirstUrl, amount \in FirstAmount : CreateMintQuote(url, amount)
    \/ \E url \in FirstUrl, id \in QuoteIds : CheckQuoteStatus(id, url)
    \/ \E limit \in {0, 1}, offset \in {0, 1} : ListTransactions(limit, offset)
    \/ \E url \in FirstUrl, id \in QuoteIds : WatcherSeesPayment(url, id)
    \/ \E url \in FirstUrl, id \in QuoteIds : ProcessorRedeems(url, id)
    \/ \E type \in {"mint", "receive"}, url \in FirstUrl, amount \in FirstAmount :
          EngineAppendsHistory(type, url, amount)

SpecRecords == InitReady /\ [][NextRecords]_vars

\* the events and the predicates the callers of the EventService use
WatchedEvents == {"mint-quote:redeemed", "proofs:saved"}

WaitPredicates == {NoPredicate, Predicate({"payload 1"})}

\* subscriptions and waits next to the engine's event stream
NextEvents ==
    \/ Cleanup
    \/ \E eventName \in WatchedEvents : Subscribe(eventName)
    \/ \E id \in 1..MaxListeners : Unsubscribe(id)
    \/ \E eventName \in WatchedEvents, predicate \in WaitPredicates :
          WaitForEvent(eventName, predicate)
    \/ \E id \in 1..MaxListeners : WaitTimeout(id)
    \/ \E e \in engines, eventName \in WatchedEvents, payload \in Payloads :
          EngineEvent(e, eventName, payload)

SpecEvents == InitReady /\ [][NextEvents]_vars

\* the timer of a waitForEvent call fires once its delay has elapsed
SpecEventsFair ==
    InitReady /\ [][NextEvents]_vars
    /\ \A id \in 1..MaxListeners : WF_vars(WaitTimeout(id))

\* every kind of engine event, on a wallet that holds mints and quotes
NextEventFrame ==
    \/ \E url \in FirstUrl : AddMint(url, "true")
    \/ \E url \in FirstUrl, amount \in FirstAmount : CreateMintQuote(url, amount)
    \/ \E url \in FirstUrl, amount \in FirstAmount : CreateMeltQuote(url, amount)
    \/ \E e \in engines, eventName \in EngineEvents, payload \in Payloads :
          EngineEvent(e, eventName, payload)

SpecEventFrame == InitReady /\ [][NextEventFrame]_vars

-----------------------------------------------------------------------------
(* Properties *)

Ok(o, name) == o.op = name /\ o.status = "ok"

\* the calls that end in default-mint resolution
IsDefaultResolution(o) ==
    \/ o.op = "getDefaultMint"
    \/ o.op = "resolveMintUrl" /\ o.url = Undefined

Listed(url, flag) ==
    LET all == listMints(mints, "all").mints IN
    \E i \in 1..Len(all) : all[i].mintUrl = url /\ all[i].trusted = flag

\* C1: calling initialize again after a successful initialize is a no-op:
\* it opens no new storage handle, constructs no new engine and leaves the
\* storage handle, the engine handle and the two sub-services as they were.
C1_ReinitializeIsNoOp ==
    [][(initOk /\ lastOp'.op = "initialize") =>
          /\ dbCount' = dbCount
          /\ openDbs' = openDbs
          /\ engines' = engines
          /\ database' = database
          /\ repositories' = repositories
          /\ manager' = manager
          /\ quoteService' = quoteService
          /\ eventService' = eventService]_vars

RECURSIVE SumDefined(_, _)
\* the sum of the defined balances of the first n URLs
SumDefined(balances, n) ==
    IF n = 0
    THEN 0
    ELSE (IF UrlNames[n] \in DOMAIN balances /\ balances[UrlNames[n]] >= 0
          THEN balances[UrlNames[n]]
          ELSE 0)
         + SumDefined(balances, n - 1)

\* C3: whenever the engine returns a balance map, getBalance succeeds, its
\* total is the sum of the defined entries (an absent or undefined entry
\* counts as zero) and its breakdown is the engine's map, no entry dropped.
C3_BalanceTotal ==
    (lastOp.op = "getBalance" /\ lastOp.arg.kind = "balances") =>
        /\ lastOp.status = "ok"
        /\ lastOp.value.total = SumDefined(lastOp.arg.map, Len(UrlNames))
        /\ lastOp.value.breakdown = lastOp.arg.map

\* two mints with balances 100 and 250 give total 350
C3_Witness ==
    /\ Ok(lastOp, "getBalance")
    /\ lastOp.value.breakdown = [u \in {UrlNames[1], UrlNames[2]} |->
                                    IF u = UrlNames[1] THEN 100 ELSE 250]
    /\ lastOp.value.total = 350

GuardedOps == {"getBalance", "addMint", "listMints", "trustMint",
               "untrustMint", "removeMint", "resolveMintUrl",
               "getDefaultMint", "sendTokens", "receiveTokens",
               "createMintQuote", "createMeltQuote", "payMeltQuote",
               "redeemMintQuote"}

\* C4: an operation that needs the engine, called before initialize has
\* succeeded or after cleanup, fails with WALLET_NOT_INITIALIZED and makes
\* no engine or storage call.
C4_UninitializedCallsFail ==
    (lastOp.op \in GuardedOps /\ ~initOk) =>
        /\ lastOp.status = "WALLET_NOT_INITIALIZED"
        /\ lastOp.calls = <<>>

\* C5: checkQuoteStatus on an initialized QuoteService whose storage calls
\* complete returns the mint quote of (mintUrl, quoteId) if there is one,
\* otherwise the melt quote if there is one, otherwise null; not-found is
\* never an error.
C5_QuotePrecedence ==
    LET key == <<lastOp.url, lastOp.arg.quoteId>> IN
    (/\ lastOp.op = "checkQuoteStatus"
     /\ quoteService.repositories # NoHandle
     /\ ~lastOp.arg.threw) =>
        /\ lastOp.status = "ok"
        /\ lastOp.value = IF key \in DOMAIN mintQuotes THEN mintQuotes[key]
                          ELSE IF key \in DOMAIN meltQuotes THEN meltQuotes[key]
                          ELSE NullValue

\* an id present as a mint quote and as a melt quote resolves to the former
C5_Witness ==
    LET key == <<lastOp.url, lastOp.arg.quoteId>> IN
    /\ Ok(lastOp, "checkQuoteStatus")
    /\ key \in DOMAIN mintQuotes
    /\ key \in DOMAIN meltQuotes
    /\ lastOp.value.kind = "mintQuote"

TrustedIndexes == {i \in 1..Len(mints) : mints[i].trusted}

\* C6: default-mint resolution on an initialized wallet fails with
\* NO_TRUSTED_MINTS when no mint is trusted and otherwise returns the first
\* trusted mint in enumeration order; two resolutions in a row return the
\* same URL.
C6_DefaultMint ==
    /\ [](((IsDefaultResolution(lastOp) /\ manager # NoHandle /\ ~lastOp.arg.threw) =>
            IF TrustedIndexes = {}
            THEN lastOp.status = "NO_TRUSTED_MINTS"
            ELSE /\ lastOp.status = "ok"
                 /\ \E i \in TrustedIndexes :
                      /\ \A j \in TrustedIndexes : i <= j
                      /\ lastOp.value.url = mints[i].mintUrl))
    /\ [][(/\ IsDefaultResolution(lastOp) /\ lastOp.status = "ok"
           /\ IsDefaultResolution(lastOp') /\ lastOp'.status = "ok") =>
              lastOp'.value = lastOp.value]_vars

\* an untrusted mint enumerated first is passed over
C6_Witness ==
    /\ IsDefaultResolution(lastOp)
    /\ lastOp.status = "ok"
    /\ Len(mints) = 2
    /\ ~mints[1].trusted
    /\ lastOp.value.url = mints[2].mintUrl

\* C7: after removeMint(url) succeeds the URL is absent from every listMints
\* result until addMint adds it again, and if it was the only trusted mint
\* the next default-mint resolution fails with NO_TRUSTED_MINTS.
C7_RemovedMintIsGone ==
    /\ [](Ok(lastOp, "listMints") =>
            \A i \in 1..Len(lastOp.value.mints) :
                lastOp.value.mints[i].mintUrl \in KnownUrls(mints))
    /\ [][/\ Ok(lastOp', "removeMint") => lastOp'.url \notin KnownUrls(mints')
          /\ \A u \in MintUrls :
                (u \notin KnownUrls(mints) /\ u \in KnownUrls(mints')) =>
                    (Ok(lastOp', "addMint") /\ lastOp'.url = u)
          /\ (/\ Ok(lastOp, "removeMint") /\ lastOp.arg.soleTrusted
              /\ IsDefaultResolution(lastOp') /\ ~lastOp'.arg.threw) =>
                    lastOp'.status = "NO_TRUSTED_MINTS"]_vars

\* the only trusted mint has just been removed
C7_Witness ==
    /\ Ok(lastOp, "removeMint")
    /\ lastOp.arg.soleTrusted
    /\ lastOp.url \notin KnownUrls(mints)
    /\ Len(mints) > 0

\* C8: addMint of a URL not added before returns a MintInfo for that URL
\* whose trusted flag is the given one, false when omitted, and the mint is
\* then listed with that flag.
C8_AddMintFlag ==
    (Ok(lastOp, "addMint") /\ lastOp.arg.isNew) =>
        LET flag == (lastOp.arg.trusted = "true") IN
        /\ lastOp.value.mintUrl = lastOp.url
        /\ lastOp.value.trusted = flag
        /\ Listed(lastOp.url, flag)

\* a mint added without the trusted argument
C8_Witness ==
    /\ Ok(lastOp, "addMint")
    /\ lastOp.arg.isNew
    /\ lastOp.arg.trusted = Undefined
    /\ ~lastOp.value.trusted
    /\ Listed(lastOp.url, FALSE)

\* C9: trustMint(url) followed by untrustMint(url) leaves the mint listed
\* with trusted = false, and untrustMint returns trusted = false.
C9_TrustThenUntrust ==
    (/\ Ok(lastOp, "untrustMint")
     /\ Ok(prevOp, "trustMint")
     /\ prevOp.url = lastOp.url) =>
        /\ lastOp.value.trusted = FALSE
        /\ lastOp.value.mintUrl = lastOp.url
        /\ Listed(lastOp.url, FALSE)

C9_Witness ==
    /\ Ok(lastOp, "untrustMint")
    /\ Ok(prevOp, "trustMint")
    /\ prevOp.url = lastOp.url
    /\ Listed(lastOp.url, FALSE)

\* C10: a trustMint or untrustMint step changes nothing but the flag of the
\* addressed mint (the other flags, the balances and the quotes stay), and
\* the set of mint URLs changes through addMint and removeMint only.
C10_TrustFrame ==
    [][/\ lastOp'.op \in {"trustMint", "untrustMint"} =>
            /\ Len(mints') = Len(mints)
            /\ \A i \in 1..Len(mints) :
                 /\ mints'[i].mintUrl = mints[i].mintUrl
                 /\ mints[i].mintUrl # lastOp'.url =>
                        mints'[i].trusted = mints[i].trusted
            /\ proofs' = proofs
            /\ mintQuotes' = mintQuotes
            /\ meltQuotes' = meltQuotes
       /\ KnownUrls(mints') # KnownUrls(mints) =>
            lastOp'.op \in {"addMint", "removeMint"}]_vars

\* a mint holding a balance has been untrusted next to a trusted one
C10_Witness ==
    /\ Ok(lastOp, "untrustMint")
    /\ BalanceOf(proofs, lastOp.url) > 0
    /\ Len(mints) = 2
    /\ \E i \in 1..2 : mints[i].trusted

\* C11: for every filter (all, trusted, untrusted, omitted) listMints returns
\* exactly the mints matching the filter, in store order, while total,
\* trusted and untrusted count all stored mints whatever the filter, so that
\* total = trusted + untrusted.
MatchesFilter(m, filter) ==
    \/ filter \in {"all", Undefined}
    \/ filter = "trusted" /\ m.trusted
    \/ filter = "untrusted" /\ ~m.trusted

MatchingIndexes(filter) == {i \in 1..Len(mints) : MatchesFilter(mints[i], filter)}

C11_ListMintsFilter ==
    Ok(lastOp, "listMints") =>
        LET r == lastOp.value
            f == lastOp.arg.filter
        IN
        /\ Len(r.mints) = Cardinality(MatchingIndexes(f))
        /\ \A i \in 1..Len(r.mints) :
              \E j \in MatchingIndexes(f) :
                 /\ r.mints[i].mintUrl = mints[j].mintUrl
                 /\ r.mints[i].trusted = mints[j].trusted
                 /\ Cardinality({k \in MatchingIndexes(f) : k < j}) = i - 1
        /\ r.total = Len(mints)
        /\ r.trusted = Cardinality({i \in 1..Len(mints) : mints[i].trusted})
        /\ r.untrusted = Cardinality({i \in 1..Len(mints) : ~mints[i].trusted})
        /\ r.total = r.trusted + r.untrusted

\* a filtered listing of a store holding a trusted and an untrusted mint
C11_Witness ==
    /\ Ok(lastOp, "listMints")
    /\ lastOp.arg.filter = "trusted"
    /\ Len(lastOp.value.mints) = 1
    /\ lastOp.value.total = 2
    /\ lastOp.value.untrusted = 1

\* C12 as stated: every url argument supplied to resolveMintUrl on an
\* initialized wallet comes back unchanged, without consulting the trust
\* store; only an omitted url leads to default-mint resolution.
C12_SuppliedUrlVerbatim ==
    (lastOp.op = "resolveMintUrl" /\ lastOp.status # NotInitialized
        /\ lastOp.url # Undefined) =>
        /\ lastOp.status = "ok"
        /\ lastOp.value = [kind |-> "url", url |-> lastOp.url]
        /\ lastOp.calls = <<>>

\* C12 amended: every non-empty url argument supplied to resolveMintUrl on
\* an initialized wallet comes back unchanged, with no check that the mint
\* exists or is trusted and no call to the trust store; an omitted url, and
\* likewise the empty string, leads to default-mint resolution.
C12_NonEmptyUrlVerbatim ==
    (lastOp.op = "resolveMintUrl" /\ lastOp.status # NotInitialized) =>
        IF lastOp.url \notin {Undefined, ""}
        THEN /\ lastOp.status = "ok"
             /\ lastOp.value = [kind |-> "url", url |-> lastOp.url]
             /\ lastOp.calls = <<>>
        ELSE /\ lastOp.calls = <<"mint.getAllTrustedMints">>
             /\ lastOp.status = "ok" =>
                    /\ TrustedIndexes # {}
                    /\ lastOp.value.url = mints[CHOOSE i \in TrustedIndexes :
                                   \A j \in TrustedIndexes : i <= j].mintUrl

\* a supplied url that names no trusted mint (stored untrusted, or not
\* stored at all) came back unchanged while another mint is trusted
C12_Witness ==
    /\ Ok(lastOp, "resolveMintUrl")
    /\ lastOp.url \in MintUrls
    /\ lastOp.value.url = lastOp.url
    /\ TrustedIndexes # {}
    /\ \A i \in 1..Len(mints) : mints[i].mintUrl = lastOp.url => ~mints[i].trusted

\* C13: cleanup never raises an error, whatever state it is called in (never
\* initialized, after a failed initialize, initialized, already cleaned up,
\* the storage close failing), and a second cleanup right after a cleanup
\* changes nothing.
C13_CleanupSafe ==
    /\ [](lastOp.op = "cleanup" => lastOp.status = "ok")
    /\ [][(lastOp.op = "cleanup" /\ lastOp'.op = "cleanup") =>
             /\ UNCHANGED lifecycleVars
             /\ UNCHANGED storeVars
             /\ lastOp' = lastOp]_vars

\* cleanup of a wallet a failed initialize left half built: the storage
\* handle and the engine were set, the quote service never became ready
C13_Witness ==
    /\ Ok(lastOp, "cleanup")
    /\ database = NoHandle
    /\ manager = NoHandle
    /\ ~initOk
    /\ dbCount = 1
    /\ engines = {1}
    /\ ~WatchersEnabled(1)

\* C14: when the engine fails while adding a mint, addMint fails with an
\* error whose code is exactly ADD_MINT_FAILED.
C14_AddMintFailedCode ==
    (lastOp.op = "addMint" /\ lastOp.calls = <<"mint.addMint">>
        /\ lastOp.status # "ok") =>
        lastOp.status = "ADD_MINT_FAILED"

\* the codes ServiceUtils.withServiceError gives the errors it re-throws
IsWrapped(status) == \E n \in DOMAIN UpperCase : status = withServiceError(n)

\* C15: for every orchestrator operation, createMintQuote, createMeltQuote,
\* payMeltQuote and redeemMintQuote included, an error raised by the engine
\* or the storage layer reaches the caller re-wrapped under the name of the
\* failing operation, never as the engine's own error.
C15_ErrorsAreWrapped ==
    (/\ lastOp.op \notin {"initialize", "cleanup"}
     /\ lastOp.calls # <<>>
     /\ lastOp.status \notin {"ok", "pending", NoTrustedMints}) =>
        /\ lastOp.status # EngineError
        /\ IsWrapped(lastOp.status)

\* C16: after a successful initialize, an orchestrator operation that fails
\* leaves the readiness and the storage and engine handles as they were
\* (isReady() is still true), and a following listMints, default-mint
\* resolution or getBalance answers what it would have answered had the
\* failed call not been made.
C16_FailureLeavesWalletReady ==
    [][(/\ initOk
        /\ lastOp'.op \notin {"initialize", "cleanup"}
        /\ lastOp'.status # "ok") =>
           /\ isReady'
           /\ database' = database
           /\ repositories' = repositories
           /\ manager' = manager
           /\ listMints(mints', "all") = listMints(mints, "all")
           /\ getDefaultMintUrl(mints', FALSE) = getDefaultMintUrl(mints, FALSE)
           /\ proofs' = proofs]_vars

\* C17: when a handler fails with an Error carrying a code, the adapter
\* fails with an Error whose message is "<CODE>: <original message>"; when
\* the handler's error carries no code the adapter re-throws that same error
\* unchanged; a handler failure never becomes a success result.
C17_AdapterErrors ==
    toolCall.outcome.kind = "threw" =>
        LET error == toolCall.outcome.error IN
        /\ toolCall.response.kind = "threw"
        /\ (error.isError /\ error.hasCode) =>
              /\ toolCall.response.error.isError
              /\ toolCall.response.error.message
                    = error.code \o ": " \o error.message
        /\ ~error.hasCode => toolCall.response.error = error

\* pay_invoice failing on an uninitialized wallet, through the factory
C17_Witness ==
    /\ toolCall.registration = "factory"
    /\ toolCall.tool = "pay_invoice"
    /\ toolCall.outcome.kind = "threw"
    /\ toolCall.outcome.error.code = "WALLET_NOT_INITIALIZED"
    /\ toolCall.response.error.message
          = "WALLET_NOT_INITIALIZED: Wallet service not initialized"

\* C18: on success the text form is the JSON serialization of the structured
\* form returned with it; list_transactions returns the handler's array under
\* the key transactions; remove_mint returns {success: true} whatever the
\* handler returned.
C18_AdapterSuccess ==
    toolCall.outcome.kind = "returned" =>
        LET r == toolCall.response IN
        /\ r.kind = "returned"
        /\ r.text = JSONstringify(r.structuredContent)
        /\ toolCall.tool = "list_transactions" =>
              /\ r.structuredContent.t = "obj"
              /\ r.structuredContent.keys = <<"transactions">>
              /\ r.structuredContent.vals = <<toolCall.outcome.value>>
        /\ toolCall.tool = "remove_mint" =>
              /\ r.structuredContent
                    = [t |-> "obj", keys |-> <<"success">>,
                       vals |-> <<[t |-> "bool", v |-> TRUE]>>]
              /\ r.text = "{\n  \"success\": true\n}"

\* remove_mint through the factory, its handler having returned undefined
C18_Witness ==
    /\ toolCall.registration = "factory"
    /\ toolCall.tool = "remove_mint"
    /\ toolCall.outcome = [kind |-> "returned", value |-> [t |-> "undefined"]]
    /\ toolCall.response.text = "{\n  \"success\": true\n}"

RECURSIVE Lines(_)
\* the lines of a key-file content: the entries between line breaks
Lines(content) ==
    IF content = <<>>
    THEN <<>>
    ELSE LET brk == {i \in 1..Len(content) : content[i] = LineBreak}
             n == IF brk = {} THEN Len(content) + 1
                  ELSE CHOOSE i \in brk : \A j \in brk : i <= j
         IN  <<SubSeq(content, 1, n - 1)>>
             \o (IF n >= Len(content) THEN <<>>
                 ELSE Lines(SubSeq(content, n + 1, Len(content))))

\* the values of the COCO_SEED entries of the key-file
SeedEntries(file) ==
    {file.content[i].value : i \in {j \in 1..Len(file.content) :
        /\ file.content[j].kind = "entry"
        /\ file.content[j].key = "COCO_SEED"}}

\* C19: over any sequence of loadConfig calls, once the key-file holds a
\* COCO_SEED entry the resolver never changes the file again; at most one
\* seed line is written in total; a write keeps the existing lines and
\* appends the seed line; a seed supplied through the environment causes no
\* write.
C19_SeedFileWrittenOnce ==
    /\ [](seedWrites <= 1)
    /\ [][/\ SeedEntries(envFile) # {} => envFile' = envFile
          /\ SeedSupplied(processEnv) => envFile' = envFile
          /\ envFile' # envFile =>
                \E m \in Mnemonics :
                    Lines(envFile'.content)
                       = Append(Lines(envFile.content),
                                <<[kind |-> "entry", key |-> "COCO_SEED",
                                   value |-> m]>>)]_vars

\* two loadConfig calls over a file whose only line had no line break: the
\* first appended the seed line, the second found it
C19_Witness ==
    /\ seedWrites = 1
    /\ Len(resolvedSeeds) = 2
    /\ configService.pc = "idle"
    /\ Len(Lines(envFile.content)) = 2
    /\ Lines(envFile.content)[1] = <<[kind |-> "entry", key |-> "LOG_LEVEL",
                                      value |-> "info"]>>
    /\ SeedEntries(envFile) = {resolvedSeeds[1]}

\* C20: when no seed is supplied through the environment a seed is generated
\* exactly once: every loadConfig call, one made when the key-file already
\* holds a seed entry included, resolves the same seed, and that seed is the
\* entry persisted in the key-file.
C20_SeedGeneratedOnce ==
    (~SeedSupplied(processEnv) /\ configService.pc = "idle") =>
        \A i \in 1..Len(resolvedSeeds) :
            /\ resolvedSeeds[i] = resolvedSeeds[1]
            /\ SeedEntries(envFile) = {resolvedSeeds[i]}

\* the listeners registered for an event name
ListenersOf(eventName) ==
    {id \in emitter : subscriptions[id].event = eventName}

\* what a listener becomes when it is handed a payload
Delivered(l, payload) ==
    IF l.kind = "callback" THEN callbackInvoked(l, payload)
    ELSE waitHandler(l, payload)

EventLogged == eventLog'.count = eventLog.count + 1

\* C21: whenever the engine emits an event named E, every callback that is
\* registered through subscribe(E) and not unsubscribed is invoked with the
\* payload, and a pending waitForEvent(E, predicate) whose predicate accepts
\* the payload resolves with that payload.
C21_EventsReachListeners ==
    [][EventLogged =>
         \A id \in ListenersOf(eventLog'.last.event) :
            subscriptions'[id] =
                Delivered(subscriptions[id], eventLog'.last.payload)]_vars

\* an event was emitted while a callback and an accepting wait were
\* registered for its name
C21_Witness ==
    /\ eventLog.count > 0
    /\ \E id \in ListenersOf(eventLog.last.event) :
          subscriptions[id].kind = "callback"
    /\ \E id \in ListenersOf(eventLog.last.event) :
          /\ subscriptions[id].kind = "wait"
          /\ Accepts(subscriptions[id].predicate, eventLog.last.payload)

Settled(l) == l.status \in {"resolved", "rejected"}

\* C22 (state part): a waitForEvent call settles at most once, a rejection
\* carries the timeout error of its event name, and a settled call has no
\* listener registered.
C22_SettledOnce ==
    \A id \in DOMAIN subscriptions :
        LET l == subscriptions[id] IN
        l.kind = "wait" =>
            /\ l.settled = (IF Settled(l) THEN 1 ELSE 0)
            /\ l.timer = ~Settled(l)
            /\ Settled(l) => id \notin emitter
            /\ l.status = "rejected" => l.value = TimeoutError(l.event)

\* C22 (step part): a settled call stays as it settled, and an event that
\* fails the predicate neither settles the call nor removes its listener.
C22_StepsKeepOutcome ==
    [][\A id \in DOMAIN subscriptions :
          LET l == subscriptions[id] IN
          l.kind = "wait" =>
              /\ Settled(l) => subscriptions'[id] = l
              /\ (EventLogged /\ ~Accepts(l.predicate, eventLog'.last.payload))
                    => (subscriptions'[id].status = l.status
                        /\ (id \in emitter <=> id \in emitter'))]_vars

\* C22 (progress part): every waitForEvent call settles.
C22_EverySettles ==
    \A id \in 1..MaxListeners :
        (id \in DOMAIN subscriptions /\ subscriptions[id].kind = "wait")
            ~> (id \in DOMAIN subscriptions /\ Settled(subscriptions[id]))

\* C22: every waitForEvent call settles exactly once: it rejects with a
\* timeout error when the timeout elapses before an event satisfying the
\* predicate is delivered, events that fail the predicate neither resolve
\* nor cancel it, and after it settled its listener is no longer registered.
C22_WaitSettlesOnce ==
    /\ []C22_SettledOnce
    /\ C22_StepsKeepOutcome
    /\ C22_EverySettles

\* a wait was rejected by its timer after an event of its name that its
\* predicate refuses had been emitted, and its listener is gone
C22_Witness ==
    \E id \in DOMAIN subscriptions :
        /\ subscriptions[id].kind = "wait"
        /\ subscriptions[id].status = "rejected"
        /\ id \notin emitter
        /\ eventLog.count > 0
        /\ eventLog.last.event = subscriptions[id].event
        /\ ~Accepts(subscriptions[id].predicate, eventLog.last.payload)

\* C23: handling an engine event changes no wallet state: for every event
\* kind the handler step leaves mints, proofs, quotes, history and the
\* orchestrator's storage and engine handles unchanged.
C23_EventHandlingIsObservational ==
    [][EventLogged =>
         UNCHANGED <<mints, proofs, mintQuotes, meltQuotes, history,
                     database, repositories, manager, quoteService,
                     transactionService>>]_vars

\* every kind of event has its turn: here one was handled on a wallet that
\* holds a mint, an unpaid mint quote and a melt quote
C23_Witness ==
    /\ eventLog.count > 0
    /\ eventLog.last.event = "mint-quote:state-changed"
    /\ Len(mints) > 0
    /\ \E k \in DOMAIN mintQuotes : mintQuotes[k].state = "UNPAID"
    /\ DOMAIN meltQuotes # {}

\* C24: in every reachable state the orchestrator has at most one storage
\* handle that it opened and has not closed, and a non-null engine handle
\* is the engine constructed over that one storage handle.
C24_OneStorageOneEngine ==
    /\ Cardinality(openDbs) <= 1
    /\ manager # NoHandle => (manager \in engines /\ openDbs = {manager})

\* the mint a call resolves to: the URL it was given, or the default mint
ResolvedMint(mintUrl) ==
    IF Truthy(mintUrl) THEN mintUrl ELSE getAllTrustedMints(mints)[1].mintUrl

HasResolvedMint(mintUrl) ==
    Truthy(mintUrl) \/ Len(getAllTrustedMints(mints)) > 0

\* the engine or the storage layer threw during the call
CollaboratorThrew(o) == "threw" \in DOMAIN o.arg /\ o.arg.threw

\* C25: lookup_quote, called with a quote id that exists only as a melt
\* quote at the resolved mint (the given mintUrl, or the default mint when
\* none is given), returns that melt quote and not null, an empty object or
\* an error.
C25_LookupReturnsMeltQuote ==
    (/\ lastOp.op = "lookup_quote"
     /\ manager # NoHandle
     /\ quoteService.repositories # NoHandle
     /\ ~CollaboratorThrew(lastOp)
     /\ HasResolvedMint(lastOp.url)
     /\ <<ResolvedMint(lastOp.url), lastOp.arg.input>> \in DOMAIN meltQuotes
     /\ <<ResolvedMint(lastOp.url), lastOp.arg.input>> \notin DOMAIN mintQuotes)
    => LET meltQuote ==
               meltQuotes[<<ResolvedMint(lastOp.url), lastOp.arg.input>>]
       IN /\ lastOp.status = "ok"
          /\ lastOp.value = meltQuote
          /\ toolCall.response.kind = "returned"
          /\ toolCall.response.structuredContent = ToJ(meltQuote)

\* the tool's response carries the value v as its structured content
Responds(v) ==
    /\ toolCall.response.kind = "returned"
    /\ toolCall.response.structuredContent = ToJ(v)

\* C26: make_invoice with amount a and no mintUrl, on a wallet with at least
\* one trusted mint, creates exactly one mint quote at the default (first
\* trusted) mint and returns it with state UNPAID, amount a and that mint's
\* URL.
C26_MakeInvoiceAtDefaultMint ==
    [][(/\ lastOp'.op = "make_invoice"
        /\ lastOp'.url = Undefined
        /\ manager # NoHandle
        /\ Len(getAllTrustedMints(mints)) > 0
        /\ ~CollaboratorThrew(lastOp'))
       => LET default == getAllTrustedMints(mints)[1].mintUrl
              a == lastOp'.arg.input
          IN /\ lastOp'.status = "ok"
             /\ \E id \in QuoteIds :
                   LET q == MintQuoteRecord(default, id, a, "UNPAID") IN
                   /\ <<default, id>> \notin DOMAIN mintQuotes
                   /\ mintQuotes' = Put(mintQuotes, <<default, id>>, q)
                   /\ lastOp'.value = q
                   /\ toolCall'.response.kind = "returned"
                   /\ toolCall'.response.structuredContent = ToJ(q)
             /\ meltQuotes' = meltQuotes
             /\ lastOp'.calls
                   = <<"mint.getAllTrustedMints",
                       EngineCall("quotes.createMintQuote", default,
                                  ToString(a))>>]_vars

\* make_invoice without a URL created a quote at the first of two trusted
\* mints
C26_Witness ==
    /\ lastOp.op = "make_invoice"
    /\ lastOp.url = Undefined
    /\ lastOp.status = "ok"
    /\ Len(getAllTrustedMints(mints)) = 2
    /\ lastOp.value.mintUrl = getAllTrustedMints(mints)[1].mintUrl
    /\ lastOp.value.state = "UNPAID"
    /\ Responds(lastOp.value)

\* the calls that omit the mint URL and rely on default-mint resolution
ReliesOnDefaultMint(o) ==
    /\ o.op \in {"sendTokens", "send_cashu", "make_invoice", "lookup_quote"}
    /\ o.url = Undefined

EngineSendOrCreate ==
    {EngineCall(name, url, ToString(a)) :
        name \in {"wallet.send", "quotes.createMintQuote",
                  "quotes.createMeltQuote"},
        url \in MintUrls, a \in Amounts} \cup {"wallet.send"}

\* C27: when no trusted mint exists, every operation that omits the mint URL
\* and relies on default-mint resolution (sendTokens(amount), send_cashu,
\* make_invoice, lookup_quote) fails with error code NO_TRUSTED_MINTS, and
\* no engine send or quote-creation call is made.
C27_NoTrustedMintsError ==
    (/\ ReliesOnDefaultMint(lastOp)
     /\ manager # NoHandle
     /\ Len(getAllTrustedMints(mints)) = 0
     /\ ~CollaboratorThrew(lastOp))
    => /\ lastOp.status = NoTrustedMints
       /\ \A i \in DOMAIN lastOp.calls : lastOp.calls[i] \notin EngineSendOrCreate

\* the calls one pay_invoice makes on the quotes API of the engine
QuoteCalls(o) ==
    SelectSeq(o.calls, LAMBDA c : c # "mint.getAllTrustedMints")

\* C29: each pay_invoice call asks the engine to create one melt quote and
\* then, only if creation succeeded, asks it to pay that quote exactly once
\* with the same mint URL and the id the creation returned; if the payment
\* fails the error propagates, the created quote is not removed or rolled
\* back, and no second payment attempt is made.
C29_PayInvoiceCreateThenPayOnce ==
    [][lastOp'.op = "pay_invoice"
       => LET o == lastOp'
              a == o.arg.input
              created == DOMAIN meltQuotes' \ DOMAIN meltQuotes
          IN \/ /\ QuoteCalls(o) = <<>>
                /\ o.status # "ok"
                /\ meltQuotes' = meltQuotes
                /\ proofs' = proofs
             \/ \E t \in MintUrls :
                   /\ QuoteCalls(o) =
                         <<EngineCall("quotes.createMeltQuote", t, ToString(a))>>
                   /\ o.status = EngineError
                   /\ meltQuotes' = meltQuotes
                   /\ proofs' = proofs
             \/ \E t \in MintUrls, id \in QuoteIds :
                   /\ QuoteCalls(o) =
                         <<EngineCall("quotes.createMeltQuote", t, ToString(a)),
                           EngineCall("quotes.payMeltQuote", t, id)>>
                   /\ created = {<<t, id>>}
                   /\ \A k \in DOMAIN meltQuotes : meltQuotes'[k] = meltQuotes[k]
                   /\ IF o.status = "ok"
                      THEN /\ meltQuotes'[<<t, id>>].state = "PAID"
                           /\ o.value = MeltQuoteRecord(t, id, a, "UNPAID")
                      ELSE /\ o.status = EngineError
                           /\ meltQuotes'[<<t, id>>] =
                                 MeltQuoteRecord(t, id, a, "UNPAID")
                           /\ proofs' = proofs]_vars

\* a pay_invoice call whose payment failed: the error reached the caller and
\* the quote it created is still in the table, unpaid
C29_Witness ==
    /\ lastOp.op = "pay_invoice"
    /\ lastOp.status = EngineError
    /\ Len(QuoteCalls(lastOp)) = 2
    /\ toolCall.response.kind = "threw"
    /\ \E k \in DOMAIN meltQuotes : meltQuotes[k].state = "UNPAID"

\* the operations of this layer that only read, and mint management
FrameOps ==
    {"checkQuoteStatus", "listTransactions", "getBalance", "listMints",
     "addMint", "trustMint", "untrustMint", "removeMint"}

\* the steps the engine takes on its own
EngineStepOps ==
    {"engine:mint-quote:state-changed", "engine:mint-quote:redeemed",
     "engine:history:updated"}

RecordsKept(old, new) ==
    \A k \in DOMAIN old : k \in DOMAIN new

RecordsChanged(old, new) ==
    \E k \in DOMAIN old : k \in DOMAIN new /\ new[k] # old[k]

C30_SeedDerivedOnlyOnEngineRequest ==
    /\ [](\A i, j \in DOMAIN derivations :
            derivations[i].mnemonic = derivations[j].mnemonic
                => derivations[i].bytes = derivations[j].bytes)
    /\ [][derivations' # derivations
            => /\ lastOp'.op = "engine:seedGetter"
               /\ lastOp'.arg.engine \in SeedGetterHolders
               /\ Len(derivations') = Len(derivations) + 1
               /\ SubSeq(derivations', 1, Len(derivations)) = derivations
               /\ derivations'[Len(derivations')].engine = lastOp'.arg.engine
               /\ derivations'[Len(derivations')].bytes = lastOp'.value]_vars

\* the engine of the initialized wallet has asked for the seed twice, the
\* second time just now, and got the same bytes both times
C30_Witness ==
    /\ Len(derivations) = 2
    /\ derivations[1].engine = manager
    /\ derivations[2].engine = manager
    /\ derivations[1].bytes = derivations[2].bytes
    /\ lastOp.op = "engine:seedGetter"
    /\ initPc = "idle"
    /\ initOk

\* C31: if initialize fails with WALLET_INIT_FAILED at any step, the
\* orchestrator is not initialized afterwards: isInitialized() and isReady()
\* are false, and an operation that follows the failure fails with
\* WALLET_NOT_INITIALIZED.
C31_FailedInitializeLeavesUninitialized ==
    /\ [](lastOp = InitFailed => ~isInitialized /\ ~isReady)
    /\ [][(lastOp = InitFailed /\ lastOp'.op \in GuardedOps)
            => lastOp'.status = NotInitialized]_vars

\* C32: whenever the orchestrator is initialized and no initialize call is
\* in flight, the storage handle the QuoteService reads quotes from is the
\* one getRepositories() returns and the engine the EventService listens to
\* is the one getManager() returns.
C32_SubServicesBoundToCurrentHandles ==
    (isInitialized /\ initPc = "idle") =>
        /\ quoteService.repositories = repositories
        /\ eventService.manager = manager
        /\ manager \in listening

\* the calls of operation op that have settled without a storage call of
\* theirs rejecting
SettledCalls(op) ==
    {slot \in 1..MaxCalls : /\ inflight[slot].op = op
                            /\ inflight[slot].pc = "done"
                            /\ inflight[slot].threw # "storage"}

\* C33: a checkQuoteStatus call that interleaves with cleanup at its await
\* points either returns the record or null it would have returned without
\* the interleaving, or fails with SERVICE_NOT_INITIALIZED; it never reads
\* through a storage handle that cleanup has set to null.
C33_CheckQuoteStatusUnderCleanup ==
    \A slot \in SettledCalls("checkQuoteStatus") :
        LET c == inflight[slot] IN
        c.expected = QuoteAt(c.url, c.arg.quoteId) =>
            /\ c.threw # "TypeError"
            /\ \/ c.status = "ok" /\ c.value = c.expected
               \/ c.status = DependenciesMissing

\* C34: a trustMint(url) call that succeeds returns a MintInfo with trusted
\* = true and an untrustMint(url) call that succeeds returns trusted = false,
\* under every interleaving with trustMint, untrustMint and removeMint calls
\* on the same url at the call's await points; and once the engine has
\* flipped the flag the call does not then report failure.
C34_FlipReturnsItsOwnFlag ==
    \A slot \in SettledCalls("trustMint") \cup SettledCalls("untrustMint") :
        LET c == inflight[slot] IN
        /\ c.status = "ok" => c.value.trusted = c.arg.flag
        /\ c.arg.flipped => c.status = "ok"

\* C35: after cleanup returns, from any state, the orchestrator retains no
\* handle: getManager() and getRepositories() both return null,
\* isInitialized() is false, and the QuoteService and the EventService both
\* report not initialized and not ready.
C35_CleanupReleasesEveryHandle ==
    lastOp.op = "cleanup" =>
        /\ manager = NoHandle
        /\ repositories = NoHandle
        /\ ~isInitialized
        /\ ~BaseIsInitialized(quoteService) /\ ~BaseIsReady(quoteService)
        /\ ~BaseIsInitialized(eventService) /\ ~BaseIsReady(eventService)

\* the running or last registry call went through the services in
\* registration order, none twice
InRegistrationOrder ==
    /\ Len(registry.log) <= Len(registry.services)
    /\ \A i \in DOMAIN registry.log :
          registry.log[i].name = registry.services[i]

\* the step in which a call of the registry returns or raises
RegistryCallEnds ==
    /\ registry'.pc = "idle"
    /\ registry.pc = "running" \/ registry'.calls # registry.calls

\* C36: initializeAll initializes the registered services in registration
\* order; if one service's initialize fails it stops there, re-raises the
\* error, leaves later services untouched and leaves the registry not
\* initialized; each service's initialize is run at most once per successful
\* initializeAll and a second initializeAll after success runs none.
C36_InitializeAllInOrderStopsAtFailure ==
    /\ [](registry.op = "initializeAll" =>
            /\ InRegistrationOrder
            /\ \A i \in DOMAIN registry.log :
                  ~registry.log[i].ok =>
                      /\ i = Len(registry.log)
                      /\ registry.pc = "idle"
                      /\ registry.status = "failed"
            /\ registry.status = "failed" =>
                  /\ ~registry.initialized
                  /\ registry.log # <<>>
                  /\ ~registry.log[Len(registry.log)].ok
            /\ (registry.pc = "idle" /\ registry.status = "ok") =>
                  registry.initialized
            /\ registry.wasInitialized =>
                  /\ registry.log = <<>>
                  /\ registry.pc = "idle"
                  /\ registry.status = "ok")
    /\ [][(/\ RegistryCallEnds
           /\ registry'.op = "initializeAll"
           /\ registry'.status = "ok"
           /\ ~registry'.wasInitialized)
            => Len(registry'.log) = Len(registry'.services)]_vars

\* initializeAll failed at the first of two services and left the second
\* alone, after an earlier initializeAll had already failed
C36_Witness ==
    /\ registry.op = "initializeAll"
    /\ registry.status = "failed"
    /\ Len(registry.services) = 2
    /\ Len(registry.log) = 1
    /\ registry.calls >= 2
    /\ ~registry.initialized

\* C37: cleanupAll calls cleanup on every registered service even when some
\* cleanups fail, never raises an error itself, and always leaves the
\* registry not initialized, so a following initializeAll initializes every
\* service again.
C37_CleanupAllNeverRaises ==
    /\ [](registry.op = "cleanupAll" =>
            /\ InRegistrationOrder
            /\ registry.status # "failed"
            /\ registry.pc = "idle" => ~registry.initialized)
    /\ [][(RegistryCallEnds /\ registry'.op = "cleanupAll")
            => Len(registry'.log) = Len(registry'.services)]_vars
    /\ [][(/\ registry.op = "cleanupAll"
           /\ registry.pc = "idle"
           /\ registry'.op = "initializeAll")
            => /\ ~registry'.wasInitialized
               /\ registry'.pc = "running" \/ registry'.services = <<>>]_vars
    /\ [][(/\ RegistryCallEnds
           /\ registry'.op = "initializeAll"
           /\ registry'.status = "ok"
           /\ ~registry'.wasInitialized)
            => \A i \in DOMAIN registry'.services :
                  registry'.log[i] = Ran(registry'.services[i], TRUE)]_vars

\* cleanupAll on an initialized registry went on to the second service
\* after the cleanup of the first had failed, and returned
C37_Witness ==
    /\ registry.op = "cleanupAll"
    /\ registry.pc = "idle"
    /\ registry.wasInitialized
    /\ Len(registry.log) = 2
    /\ ~registry.log[1].ok
    /\ ~registry.initialized

====
